---- MODULE Spec2Model ----
(***************************************************************************)
(* Clock tree configuration of the stm32l4xx HAL (src/rcc.rs and src/rcc): *)
(* the divider resolvers, the oscillator and PLL commits, the CFGR builder *)
(* and CFGR::freeze, run against a register model of RCC, FLASH and PWR.   *)
(***************************************************************************)
EXTENDS Integers, Sequences, FiniteSets, TLC

\* ------------------------------------------------------------------------
\* Option<T> as a set with at most one element.
None == {}
Some(x) == {x}
IsSome(o) == o # {}
Unwrap(o) == CHOOSE x \in o : TRUE

\* Hertz::MHz(n)
MHz(n) == n * 1000000

MAX_CLOCK_SPEED == MHz(80)
HSI16_FREQ == MHz(16)

\* The outcome of a panic!/assert!/expect that fails.
Panic == "Panic"

\* ------------------------------------------------------------------------
\* hclk.rs: HclkDivider

HclkDivider_from_ratio_NoAssert(source, target) ==
    IF target = 0 THEN Panic
    ELSE CASE source \div target = 1 -> "Div1"
           [] source \div target = 2 -> "Div2"
           [] source \div target = 4 -> "Div4"
           [] source \div target = 8 -> "Div8"
           [] source \div target = 16 -> "Div16"
           [] source \div target = 64 -> "Div64"
           [] source \div target = 128 -> "Div128"
           [] source \div target = 256 -> "Div256"
           [] source \div target = 512 -> "Div512"
           [] OTHER -> Panic

HclkDivider_from_ratio_With32(source, target) ==
    IF target = 0 THEN Panic
    ELSE IF source % target # 0 THEN Panic
    ELSE CASE source \div target = 0 -> Panic
           [] source \div target = 1 -> "Div1"
           [] source \div target = 2 -> "Div2"
           [] source \div target = 4 -> "Div4"
           [] source \div target = 8 -> "Div8"
           [] source \div target = 16 -> "Div16"
           [] source \div target = 32 -> "Div64"
           [] source \div target = 64 -> "Div64"
           [] source \div target = 128 -> "Div128"
           [] source \div target = 256 -> "Div256"
           [] source \div target = 512 -> "Div512"
           [] OTHER -> Panic

\* `source % target` panics on target = 0; the assert panics on a remainder;
\* the match panics on 0 and on every value that is no arm.
HclkDivider_from_ratio(source, target) ==
    IF target = 0 THEN Panic
    ELSE IF source % target # 0 THEN Panic
    ELSE CASE source \div target = 0 -> Panic
           [] source \div target = 1 -> "Div1"
           [] source \div target = 2 -> "Div2"
           [] source \div target = 4 -> "Div4"
           [] source \div target = 8 -> "Div8"
           [] source \div target = 16 -> "Div16"
           [] source \div target = 64 -> "Div64"
           [] source \div target = 128 -> "Div128"
           [] source \div target = 256 -> "Div256"
           [] source \div target = 512 -> "Div512"
           [] OTHER -> Panic

HclkDivider_bits(d) ==
    CASE d = "Div1" -> 0
      [] d = "Div2" -> 8
      [] d = "Div4" -> 9
      [] d = "Div8" -> 10
      [] d = "Div16" -> 11
      [] d = "Div64" -> 12
      [] d = "Div128" -> 13
      [] d = "Div256" -> 14
      [] d = "Div512" -> 15

HclkDivider_div_factor(d) ==
    CASE d = "Div1" -> 1
      [] d = "Div2" -> 2
      [] d = "Div4" -> 4
      [] d = "Div8" -> 8
      [] d = "Div16" -> 16
      [] d = "Div64" -> 64
      [] d = "Div128" -> 128
      [] d = "Div256" -> 256
      [] d = "Div512" -> 512

HclkDividers ==
    {"Div1", "Div2", "Div4", "Div8", "Div16", "Div64", "Div128", "Div256", "Div512"}

\* ------------------------------------------------------------------------
\* pclk.rs: Prescaler

Prescaler_from_ratio_Upto32(source, target) ==
    IF target = 0 THEN Panic
    ELSE IF source % target # 0 THEN Panic
    ELSE CASE source \div target = 0 -> Panic
           [] source \div target = 1 -> "Div1"
           [] source \div target = 2 -> "Div2"
           [] source \div target = 4 -> "Div4"
           [] source \div target = 8 -> "Div8"
           [] source \div target = 16 -> "Div16"
           [] source \div target = 32 -> "Div16"
           [] OTHER -> Panic

Prescaler_from_ratio(source, target) ==
    IF target = 0 THEN Panic
    ELSE IF source % target # 0 THEN Panic
    ELSE CASE source \div target = 0 -> Panic
           [] source \div target = 1 -> "Div1"
           [] source \div target = 2 -> "Div2"
           [] source \div target = 4 -> "Div4"
           [] source \div target = 8 -> "Div8"
           [] source \div target = 16 -> "Div16"
           [] OTHER -> Panic

Prescaler_bits(d) ==
    CASE d = "Div1" -> 0
      [] d = "Div2" -> 4
      [] d = "Div4" -> 5
      [] d = "Div8" -> 6
      [] d = "Div16" -> 7

Prescaler_div_factor(d) ==
    CASE d = "Div1" -> 1
      [] d = "Div2" -> 2
      [] d = "Div4" -> 4
      [] d = "Div8" -> 8
      [] d = "Div16" -> 16

Prescalers == {"Div1", "Div2", "Div4", "Div8", "Div16"}

Pclk_freeze_AlwaysDouble(freq, hclk_freq) ==
    LET divider == Prescaler_from_ratio(hclk_freq, freq) IN
    IF divider = Panic THEN [ok |-> FALSE, v |-> Panic]
    ELSE [ok |-> TRUE,
          v |-> [divider |-> divider, pclk |-> freq, timclk |-> 2 * freq]]

\* pclk_config!::freeze: the divider it writes and the (pclk, timclk) it
\* returns, or the panic of from_ratio.
Pclk_freeze(freq, hclk_freq) ==
    LET divider == Prescaler_from_ratio(hclk_freq, freq) IN
    IF divider = Panic THEN [ok |-> FALSE, v |-> Panic]
    ELSE [ok |-> TRUE,
          v |-> [divider |-> divider,
                 pclk |-> freq,
                 timclk |-> IF divider = "Div1" THEN freq ELSE 2 * freq]]

\* ------------------------------------------------------------------------
\* pll.rs: PllOutputDivider, PllSource

PllOutputDivider_bits(d) ==
    CASE d = "Div2" -> 0
      [] d = "Div4" -> 1
      [] d = "Div6" -> 2
      [] d = "Div8" -> 3

PllOutputDivider_div_factor(d) ==
    CASE d = "Div2" -> 2
      [] d = "Div4" -> 4
      [] d = "Div6" -> 6
      [] d = "Div8" -> 8

PllOutputDividers == {"Div2", "Div4", "Div6", "Div8"}

PllSource_source_bits(s) ==
    CASE s = "MSI" -> 1
      [] s = "HSI16" -> 2
      [] s = "HSE" -> 3

PllSources == {"MSI", "HSI16", "HSE"}

\* ------------------------------------------------------------------------
\* msi.rs: MsiFreq (the value is the discriminant, 0..11)

MsiHertz ==
    <<100000, 200000, 400000, 800000, 1000000, 2000000,
      4000000, 8000000, 16000000, 24000000, 32000000, 48000000>>

MsiFreq_to_hertz(range) == MsiHertz[range + 1]

RANGE4M == 6
RANGE48M == 11

\* ------------------------------------------------------------------------
\* rcc.rs: SysclkSource as u8

SysclkSources == {"MSI", "HSI16", "HSE", "PLL"}

SysclkSource_bits(s) ==
    CASE s = "MSI" -> 0
      [] s = "HSI16" -> 1
      [] s = "HSE" -> 2
      [] s = "PLL" -> 3


\* ------------------------------------------------------------------------
\* Results of an operation that may panic: a value, or the failed check.
Ok(v) == [ok |-> TRUE, v |-> v]
Fail(e) == [ok |-> FALSE, v |-> e]

\* The panics of the freeze sequence, by the check that raises them.
E_PLL_NO_HSE == "pll: HSE not enabled"
E_PLL_NO_MSI == "pll: MSI not enabled"
E_PLL_VCO_IN == "pll: VCO input out of range"
E_PLL_VCO_OUT == "pll: VCO output out of range"
E_PLL_MAX == "pll: output above MAX_CLOCK_SPEED"
E_PLL_TARGET == "pll: output does not match target"
E_LSE_CSS == "lse: CSS needs LSI"
E_NO_SYSCLK == "sysclk: no configuration and no MSI"
E_SYSCLK_NO_HSE == "sysclk: HSE not enabled"
E_SYSCLK_NO_HSI16 == "sysclk: HSI16 not enabled"
E_SYSCLK_NO_MSI == "sysclk: MSI not enabled"
E_SYSCLK_NO_PLL == "sysclk: PLL not enabled"
E_SYSCLK_SPEED == "sysclk: source speed does not match target"
E_PCLK1_RATIO == "pclk1: invalid ratio"
E_PCLK2_RATIO == "pclk2: invalid ratio"
E_HCLK_RATIO == "hclk: invalid ratio"
E_PLL_NEW == "pll: constructor argument out of range"
E_TODO == "not yet implemented"

MissingDependency ==
    {E_PLL_NO_HSE, E_PLL_NO_MSI, E_SYSCLK_NO_HSE, E_SYSCLK_NO_HSI16,
     E_SYSCLK_NO_MSI, E_SYSCLK_NO_PLL}

\* ------------------------------------------------------------------------
\* pll.rs: PllConfig

\* PllConfig::new: the asserts of the constructor.
PllConfig_new(source, target_freq, in_div, out_mul, out_div) ==
    IF in_div >= 1 /\ in_div <= 8 /\ out_mul >= 8 /\ out_mul <= 86
       /\ target_freq <= MAX_CLOCK_SPEED
    THEN Ok([source |-> source, target_freq |-> target_freq, in_div |-> in_div,
             out_mul |-> out_mul, out_div |-> out_div])
    ELSE Fail(Panic)

\* PllConfig::freeze, the match on self.source: the frequency of the input.
PllConfig_clock_freq(pll, cfgr) ==
    CASE pll.source = "HSE" ->
            IF IsSome(cfgr.hse) THEN Ok(Unwrap(cfgr.hse).speed) ELSE Fail(E_PLL_NO_HSE)
      [] pll.source = "HSI16" -> Ok(HSI16_FREQ)
      [] pll.source = "MSI" ->
            IF IsSome(cfgr.msi) THEN Ok(MsiFreq_to_hertz(Unwrap(cfgr.msi)))
            ELSE Fail(E_PLL_NO_MSI)

PllConfig_validate_NoVcoFloor(pll, clock_freq) ==
    LET source_freq == clock_freq \div pll.in_div
        vco_freq == source_freq * pll.out_mul
        out_clock == vco_freq \div PllOutputDivider_div_factor(pll.out_div)
    IN  IF source_freq < MHz(4) THEN Fail(E_PLL_VCO_IN)
        ELSE IF source_freq > MHz(16) THEN Fail(E_PLL_VCO_IN)
        ELSE IF vco_freq > MHz(344) THEN Fail(E_PLL_VCO_OUT)
        ELSE IF out_clock > MAX_CLOCK_SPEED THEN Fail(E_PLL_MAX)
        ELSE IF out_clock # pll.target_freq THEN Fail(E_PLL_TARGET)
        ELSE Ok(out_clock)

\* PllConfig::freeze, the asserts on the three frequencies, in their order.
\* The product is evaluated only once source_freq <= 16 MHz is established,
\* so it is below 2^32 and the u32 multiplication does not wrap.
PllConfig_validate(pll, clock_freq) ==
    LET source_freq == clock_freq \div pll.in_div
        vco_freq == source_freq * pll.out_mul
        out_clock == vco_freq \div PllOutputDivider_div_factor(pll.out_div)
    IN  IF source_freq < MHz(4) THEN Fail(E_PLL_VCO_IN)
        ELSE IF source_freq > MHz(16) THEN Fail(E_PLL_VCO_IN)
        ELSE IF vco_freq < MHz(64) THEN Fail(E_PLL_VCO_OUT)
        ELSE IF vco_freq > MHz(344) THEN Fail(E_PLL_VCO_OUT)
        ELSE IF out_clock > MAX_CLOCK_SPEED THEN Fail(E_PLL_MAX)
        ELSE IF out_clock # pll.target_freq THEN Fail(E_PLL_TARGET)
        ELSE Ok(out_clock)

\* floor((2^32 - 1) / m) for m >= 2, from 2^32 - 1 = 2 * (2^31 - 1) + 1.
U32MaxDiv(m) ==
    2 * (2147483647 \div m) + ((2 * (2147483647 % m) + 1) \div m)

PllConfig_arith_MulFirst(pll, clock_freq) ==
    IF pll.in_div = 0 THEN [status |-> "DivideByZero", mul |-> None]
    ELSE LET source_freq == clock_freq \div pll.in_div IN
    IF pll.out_mul >= 2 /\ source_freq > U32MaxDiv(pll.out_mul)
    THEN [status |-> "Overflow", mul |-> None]
    ELSE LET vco_freq == IF pll.out_mul >= 2
                            /\ source_freq > 2147483647 \div pll.out_mul
                         THEN 2147483647
                         ELSE source_freq * pll.out_mul IN
    IF source_freq < MHz(4) \/ source_freq > MHz(16)
    THEN [status |-> "Assert", mul |-> Some(vco_freq)]
    ELSE IF vco_freq < MHz(64) \/ vco_freq > MHz(344)
    THEN [status |-> "Assert", mul |-> Some(vco_freq)]
    ELSE IF PllOutputDivider_div_factor(pll.out_div) = 0
    THEN [status |-> "DivideByZero", mul |-> Some(vco_freq)]
    ELSE LET out_clock == vco_freq \div PllOutputDivider_div_factor(pll.out_div) IN
    IF out_clock > MAX_CLOCK_SPEED \/ out_clock # pll.target_freq
    THEN [status |-> "Assert", mul |-> Some(vco_freq)]
    ELSE [status |-> "Ok", mul |-> Some(vco_freq)]

\* PllConfig::freeze, the u32 arithmetic statement by statement: the
\* division by in_div, the two asserts on source_freq, the multiplication by
\* out_mul (its product, when it is evaluated and fits in 32 bits), the two
\* asserts on vco_freq, the division by the output factor, the last asserts.
PllConfig_arith(pll, clock_freq) ==
    IF pll.in_div = 0 THEN [status |-> "DivideByZero", mul |-> None]
    ELSE LET source_freq == clock_freq \div pll.in_div IN
    IF source_freq < MHz(4) \/ source_freq > MHz(16)
    THEN [status |-> "Assert", mul |-> None]
    ELSE IF pll.out_mul >= 2 /\ source_freq > U32MaxDiv(pll.out_mul)
    THEN [status |-> "Overflow", mul |-> None]
    ELSE LET vco_freq == source_freq * pll.out_mul IN
    IF vco_freq < MHz(64) \/ vco_freq > MHz(344)
    THEN [status |-> "Assert", mul |-> Some(vco_freq)]
    ELSE IF PllOutputDivider_div_factor(pll.out_div) = 0
    THEN [status |-> "DivideByZero", mul |-> Some(vco_freq)]
    ELSE LET out_clock == vco_freq \div PllOutputDivider_div_factor(pll.out_div) IN
    IF out_clock > MAX_CLOCK_SPEED \/ out_clock # pll.target_freq
    THEN [status |-> "Assert", mul |-> Some(vco_freq)]
    ELSE [status |-> "Ok", mul |-> Some(vco_freq)]

\* PllConfig::freeze up to the register writes: the output clock, or the panic.
PllConfig_check(pll, cfgr) ==
    LET f == PllConfig_clock_freq(pll, cfgr) IN
    IF f.ok THEN PllConfig_validate(pll, f.v) ELSE f

\* ------------------------------------------------------------------------
\* cfgr.rs: CFGR, the pure parts of freeze

CFGR_default ==
    [hse |-> None, lse |-> None, msi |-> None, hsi48_on |-> FALSE,
     hsi16_on |-> FALSE, lsi_on |-> FALSE, hclk |-> None, pclk1 |-> None,
     pclk2 |-> None, sysclk |-> None, pll |-> None]

create_sysclk_config_Default4M(cfgr) ==
    IF IsSome(cfgr.sysclk) THEN Ok(Unwrap(cfgr.sysclk))
    ELSE IF IsSome(cfgr.msi)
    THEN Ok([speed |-> MsiFreq_to_hertz(Unwrap(cfgr.msi)), source_clock |-> "MSI"])
    ELSE Ok([speed |-> MHz(4), source_clock |-> "MSI"])

create_sysclk_config(cfgr) ==
    IF IsSome(cfgr.sysclk) THEN Ok(Unwrap(cfgr.sysclk))
    ELSE IF IsSome(cfgr.msi)
    THEN Ok([speed |-> MsiFreq_to_hertz(Unwrap(cfgr.msi)), source_clock |-> "MSI"])
    ELSE Fail(E_NO_SYSCLK)

\* HclkConfig is its frequency.
create_hclk_config(cfgr, sysclk_config) ==
    IF IsSome(cfgr.hclk) THEN Unwrap(cfgr.hclk) ELSE sysclk_config.speed

sysclk_source_speed_Hsi16Unchecked(cfgr, config) ==
    CASE config.source_clock = "HSE" ->
            IF IsSome(cfgr.hse) THEN Ok(Unwrap(cfgr.hse).speed) ELSE Fail(E_SYSCLK_NO_HSE)
      [] config.source_clock = "HSI16" -> Ok(HSI16_FREQ)
      [] config.source_clock = "MSI" ->
            IF IsSome(cfgr.msi) THEN Ok(MsiFreq_to_hertz(Unwrap(cfgr.msi)))
            ELSE Fail(E_SYSCLK_NO_MSI)
      [] config.source_clock = "PLL" ->
            IF IsSome(cfgr.pll) THEN Ok(Unwrap(cfgr.pll).target_freq)
            ELSE Fail(E_SYSCLK_NO_PLL)

\* setup_sysclk, the match on config.source_clock.
sysclk_source_speed(cfgr, config) ==
    CASE config.source_clock = "HSE" ->
            IF IsSome(cfgr.hse) THEN Ok(Unwrap(cfgr.hse).speed) ELSE Fail(E_SYSCLK_NO_HSE)
      [] config.source_clock = "HSI16" ->
            IF cfgr.hsi16_on THEN Ok(HSI16_FREQ) ELSE Fail(E_SYSCLK_NO_HSI16)
      [] config.source_clock = "MSI" ->
            IF IsSome(cfgr.msi) THEN Ok(MsiFreq_to_hertz(Unwrap(cfgr.msi)))
            ELSE Fail(E_SYSCLK_NO_MSI)
      [] config.source_clock = "PLL" ->
            IF IsSome(cfgr.pll) THEN Ok(Unwrap(cfgr.pll).target_freq)
            ELSE Fail(E_SYSCLK_NO_PLL)

sysclk_check_Assumed(cfgr, config) ==
    LET s == sysclk_source_speed(cfgr, config) IN
    IF ~s.ok THEN s ELSE Ok(config.speed)

\* setup_sysclk up to the register write: the match, then the assert_eq.
sysclk_check(cfgr, config) ==
    LET s == sysclk_source_speed(cfgr, config) IN
    IF ~s.ok THEN s
    ELSE IF s.v # config.speed THEN Fail(E_SYSCLK_SPEED)
    ELSE Ok(config.speed)

flash_latency_bits_Exclusive(hclk) ==
    IF hclk < 16000000 THEN 0
    ELSE IF hclk < 32000000 THEN 1
    ELSE IF hclk < 48000000 THEN 2
    ELSE IF hclk < 64000000 THEN 3
    ELSE 4

\* adjust_flash_wait_states, the latency bits for a core-bus frequency.
flash_latency_bits(hclk) ==
    IF hclk <= 16000000 THEN 0
    ELSE IF hclk <= 32000000 THEN 1
    ELSE IF hclk <= 48000000 THEN 2
    ELSE IF hclk <= 64000000 THEN 3
    ELSE 4

\* ------------------------------------------------------------------------
\* clocks.rs: Clocks

Clocks_default ==
    [hclk |-> MHz(4), hsi48 |-> FALSE, msi |-> Some(RANGE4M), lsi |-> FALSE,
     lse |-> FALSE, hse |-> None, pclk1 |-> MHz(4), pclk2 |-> MHz(4),
     ppre1 |-> 1, ppre2 |-> 1, sysclk |-> MHz(4), timclk1 |-> MHz(4),
     timclk2 |-> MHz(4), pll |-> None]


\* ------------------------------------------------------------------------
\* State

VARIABLES
    cfg,        \* the CFGR builder that freeze consumes
    rcc,        \* the RCC register block: cr, cfgr, pllcfgr, bdcr, csr, crrcr, cier
    acr,        \* FLASH ACR: latency
    pwr,        \* PWR CR1: dbp
    clocks,     \* `clocks`, the record freeze fills
    sysclk,     \* `sysclk`, the local of freeze (None before create_sysclk_config)
    hclk,       \* `hclk`, the local of freeze (None before create_hclk_config)
    pc,         \* the position of freeze
    err,        \* the panic that ended freeze (None while it runs)
    returned,   \* the Clocks that freeze returned (None before)
    log,        \* the register writes of freeze, in order
    ratio,      \* divider resolution alone: the (source, target) pair
    resolved,   \* divider resolution alone: the dividers resolved so far
    calls,      \* the builder alone: the setter calls made, with their arguments
    pllarith    \* the PLL arithmetic alone: the PllConfig, the clock, the outcome

vars == <<cfg, rcc, acr, pwr, clocks, sysclk, hclk, pc, err, returned, log,
          ratio, resolved, calls, pllarith>>

freeze_vars == <<cfg, rcc, acr, pwr, clocks, sysclk, hclk, pc, err, returned, log>>
ratio_vars == <<ratio, resolved>>

\* ------------------------------------------------------------------------
\* The registers. The reset values are those of the device: RCC_CR resets to
\* MSION = 1, MSIRANGE = 0110, RCC_CFGR to 0, RCC_PLLCFGR to PLLN = 16.

RccReset ==
    [cr |-> [msion |-> TRUE, msirdy |-> TRUE, msirange |-> 6, msirgsel |-> FALSE,
             msipllen |-> FALSE, hsion |-> FALSE, hsirdy |-> FALSE,
             hseon |-> FALSE, hserdy |-> FALSE, hsebyp |-> FALSE, csson |-> FALSE,
             pllon |-> FALSE, pllrdy |-> FALSE],
     cfgr |-> [sw |-> 0, sws |-> 0, hpre |-> 0, ppre1 |-> 0, ppre2 |-> 0],
     pllcfgr |-> [pllsrc |-> 0, pllm |-> 0, plln |-> 16, pllr |-> 0, pllren |-> FALSE],
     bdcr |-> [lseon |-> FALSE, lserdy |-> FALSE, lsebyp |-> FALSE, lsedrv |-> 0,
               lsecsson |-> FALSE],
     csr |-> [lsion |-> FALSE, lsirdy |-> FALSE],
     crrcr |-> [hsi48on |-> FALSE, hsi48rdy |-> FALSE],
     cier |-> [lsecssie |-> FALSE]]

\* rcc.cr.write(|w| ...): the closure starts from the reset value of the
\* register, so every writable bit it does not set gets its reset value.
\* The ready flags are read-only; CSSON is set-only in hardware.
cr_write_base(cr) ==
    [cr EXCEPT !.msion = TRUE, !.msirange = 6, !.msirgsel = FALSE,
               !.msipllen = FALSE, !.hsion = FALSE, !.hseon = FALSE,
               !.hsebyp = FALSE, !.pllon = FALSE]

\* rcc.cfgr.reset()
cfgr_reset(r) == [r EXCEPT !.sw = 0, !.hpre = 0, !.ppre1 = 0, !.ppre2 = 0]

\* The states freeze may find the device in: after a device reset, or as an
\* earlier freeze left it, once the ready flags and the switch status have
\* settled. Each state holds the clock registers, the flash latency and the
\* backup-domain write protection (DBP) bit.
HwState(r, latency, dbp) ==
    [rcc |-> r, acr |-> [latency |-> latency], pwr |-> [dbp |-> dbp]]

HwReset == HwState(RccReset, 0, FALSE)

\* enable_msi(RANGE48M)
HwMsi48 == [RccReset EXCEPT !.cr.msirgsel = TRUE, !.cr.msirange = RANGE48M]

\* enable_msi(RANGE48M).enable_lse(bypass, css), with set_lsi(true) under css:
\* setup_lse sets DBP, LSEON, LSEBYP or the drive strength 3, and for css
\* LSECSSON and LSECSSIE; MsiFreq::freeze sets MSIPLLEN.
HwMsi48Lse(bypass, css) ==
    [HwMsi48 EXCEPT !.cr.msipllen = TRUE,
                    !.bdcr.lseon = TRUE, !.bdcr.lserdy = TRUE,
                    !.bdcr.lsebyp = bypass,
                    !.bdcr.lsedrv = IF bypass THEN 0 ELSE 3,
                    !.bdcr.lsecsson = css, !.cier.lsecssie = css,
                    !.csr.lsion = css, !.csr.lsirdy = css]

\* enable_hsi16(true).set_sysclk(HSI16, 16 MHz).set_hclk_freq(8 MHz), without
\* MSI (clean_msi switched it off) or with enable_msi(RANGE4M).
HwHsi16(msi) ==
    [RccReset EXCEPT !.cr.msion = msi, !.cr.msirdy = msi, !.cr.msirgsel = msi,
                     !.cr.hsion = TRUE, !.cr.hsirdy = TRUE,
                     !.cfgr.sw = 1, !.cfgr.sws = 1, !.cfgr.hpre = 8]

\* enable_hse(8 MHz, no bypass, no css).set_sysclk(HSE, 8 MHz)
HwHse ==
    [RccReset EXCEPT !.cr.msion = FALSE, !.cr.msirdy = FALSE,
                     !.cr.hseon = TRUE, !.cr.hserdy = TRUE,
                     !.cfgr.sw = 2, !.cfgr.sws = 2]

\* enable_hsi16(true).enable_pll(HSI16, 80 MHz, 1, 10, Div2)
\*     .set_sysclk(PLL, 80 MHz)
HwPll80 ==
    [RccReset EXCEPT !.cr.msion = FALSE, !.cr.msirdy = FALSE,
                     !.cr.hsion = TRUE, !.cr.hsirdy = TRUE,
                     !.cr.pllon = TRUE, !.cr.pllrdy = TRUE,
                     !.pllcfgr.pllsrc = 2, !.pllcfgr.plln = 10,
                     !.pllcfgr.pllren = TRUE,
                     !.cfgr.sw = 3, !.cfgr.sws = 3]

HwInits ==
    {HwReset, HwState(HwMsi48, 2, FALSE)}
    \cup { HwState(HwMsi48Lse(b[1], b[2]), 2, TRUE) :
             b \in {<<FALSE, FALSE>>, <<TRUE, FALSE>>, <<FALSE, TRUE>>} }
    \cup { HwState(HwHsi16(m), 0, FALSE) : m \in BOOLEAN }
    \cup {HwState(HwHse, 0, FALSE), HwState(HwPll80, 4, FALSE)}

\* ------------------------------------------------------------------------
\* Hardware: ready flags follow the enable bits, the PLL locks on a running
\* input, the system-clock switch follows the selector once the source runs.

OscReady(r, bits) ==
    CASE bits = 0 -> r.cr.msirdy
      [] bits = 1 -> r.cr.hsirdy
      [] bits = 2 -> r.cr.hserdy
      [] bits = 3 -> r.cr.pllrdy

PllInputReady(r) ==
    CASE r.pllcfgr.pllsrc = 1 -> r.cr.msirdy
      [] r.pllcfgr.pllsrc = 2 -> r.cr.hsirdy
      [] r.pllcfgr.pllsrc = 3 -> r.cr.hserdy
      [] OTHER -> FALSE

hw_ready ==
    /\ \/ /\ rcc.cr.msirdy # rcc.cr.msion
          /\ rcc' = [rcc EXCEPT !.cr.msirdy = rcc.cr.msion]
       \/ /\ rcc.cr.hsirdy # rcc.cr.hsion
          /\ rcc' = [rcc EXCEPT !.cr.hsirdy = rcc.cr.hsion]
       \/ /\ rcc.cr.hserdy # rcc.cr.hseon
          /\ rcc' = [rcc EXCEPT !.cr.hserdy = rcc.cr.hseon]
       \/ /\ rcc.csr.lsirdy # rcc.csr.lsion
          /\ rcc' = [rcc EXCEPT !.csr.lsirdy = rcc.csr.lsion]
       \/ /\ rcc.bdcr.lserdy # rcc.bdcr.lseon
          /\ rcc' = [rcc EXCEPT !.bdcr.lserdy = rcc.bdcr.lseon]
       \/ /\ rcc.crrcr.hsi48rdy # rcc.crrcr.hsi48on
          /\ rcc' = [rcc EXCEPT !.crrcr.hsi48rdy = rcc.crrcr.hsi48on]
    /\ UNCHANGED <<cfg, acr, pwr, clocks, sysclk, hclk, pc, err, returned, log>>
    /\ UNCHANGED <<ratio_vars, calls, pllarith>>

hw_pll_lock ==
    /\ rcc.cr.pllrdy # rcc.cr.pllon
    /\ rcc.cr.pllon => PllInputReady(rcc)
    /\ rcc' = [rcc EXCEPT !.cr.pllrdy = rcc.cr.pllon]
    /\ UNCHANGED <<cfg, acr, pwr, clocks, sysclk, hclk, pc, err, returned, log>>
    /\ UNCHANGED <<ratio_vars, calls, pllarith>>

hw_switch ==
    /\ rcc.cfgr.sws # rcc.cfgr.sw
    /\ OscReady(rcc, rcc.cfgr.sw)
    /\ rcc' = [rcc EXCEPT !.cfgr.sws = rcc.cfgr.sw]
    /\ UNCHANGED <<cfg, acr, pwr, clocks, sysclk, hclk, pc, err, returned, log>>
    /\ UNCHANGED <<ratio_vars, calls, pllarith>>


\* ------------------------------------------------------------------------
\* CFGR::freeze, one action per register write and per polling loop.

Goto(l) == pc' = l
Wrote(names) == log' = log \o names
fail(e) == /\ pc' = "panicked"
           /\ err' = Some(e)

\* reset_clocks: MSI on at 4 MHz if it is off.
reset_clocks_msi ==
    /\ pc = "reset_clocks"
    /\ IF ~rcc.cr.msion
       THEN /\ rcc' = [rcc EXCEPT !.cr.msirgsel = TRUE, !.cr.msirange = RANGE4M,
                                  !.cr.msipllen = FALSE, !.cr.msion = TRUE]
            /\ Wrote(<<"cr.msirgsel", "cr.msirange", "cr.msipllen", "cr.msion">>)
            /\ Goto("reset_clocks_msirdy")
       ELSE /\ UNCHANGED <<rcc, log>>
            /\ Goto("reset_clocks_sws")
    /\ UNCHANGED <<cfg, acr, pwr, clocks, sysclk, hclk, err, returned>>
    /\ UNCHANGED <<ratio_vars, calls, pllarith>>

reset_clocks_msirdy ==
    /\ pc = "reset_clocks_msirdy"
    /\ rcc.cr.msirdy
    /\ Goto("reset_clocks_sws")
    /\ UNCHANGED <<cfg, rcc, acr, pwr, clocks, sysclk, hclk, err, returned, log>>
    /\ UNCHANGED <<ratio_vars, calls, pllarith>>

\* reset_clocks: RCC_CFGR back to its reset value if MSI is not the system clock.
reset_clocks_cfgr ==
    /\ pc = "reset_clocks_sws"
    /\ IF rcc.cfgr.sws # SysclkSource_bits("MSI")
       THEN /\ rcc' = [rcc EXCEPT !.cfgr = cfgr_reset(@)]
            /\ Wrote(<<"cfgr.reset">>)
            /\ Goto("reset_clocks_swswait")
       ELSE /\ UNCHANGED <<rcc, log>>
            /\ Goto("setup_lsi")
    /\ UNCHANGED <<cfg, acr, pwr, clocks, sysclk, hclk, err, returned>>
    /\ UNCHANGED <<ratio_vars, calls, pllarith>>

reset_clocks_swswait ==
    /\ pc = "reset_clocks_swswait"
    /\ rcc.cfgr.sws = SysclkSource_bits("MSI")
    /\ Goto("setup_lsi")
    /\ UNCHANGED <<cfg, rcc, acr, pwr, clocks, sysclk, hclk, err, returned, log>>
    /\ UNCHANGED <<ratio_vars, calls, pllarith>>

setup_lsi ==
    /\ pc = "setup_lsi"
    /\ IF ~cfg.lsi_on
       THEN /\ UNCHANGED <<rcc, log>>
            /\ Goto("setup_lse")
       ELSE /\ rcc' = [rcc EXCEPT !.csr.lsion = TRUE]
            /\ Wrote(<<"csr.lsion">>)
            /\ Goto("setup_lsi_rdy")
    /\ UNCHANGED <<cfg, acr, pwr, clocks, sysclk, hclk, err, returned>>
    /\ UNCHANGED <<ratio_vars, calls, pllarith>>

setup_lsi_rdy ==
    /\ pc = "setup_lsi_rdy"
    /\ rcc.csr.lsirdy
    /\ clocks' = [clocks EXCEPT !.lsi = TRUE]
    /\ Goto("setup_lse")
    /\ UNCHANGED <<cfg, rcc, acr, pwr, sysclk, hclk, err, returned, log>>
    /\ UNCHANGED <<ratio_vars, calls, pllarith>>

\* setup_lse: unlock the backup domain.
setup_lse_dbp ==
    /\ pc = "setup_lse"
    /\ IF IsSome(cfg.lse)
       THEN /\ pwr' = [pwr EXCEPT !.dbp = TRUE]
            /\ Wrote(<<"pwr.cr1.dbp">>)
            /\ Goto("setup_lse_bdcr")
       ELSE /\ UNCHANGED <<pwr, log>>
            /\ Goto("setup_hse")
    /\ UNCHANGED <<cfg, rcc, acr, clocks, sysclk, hclk, err, returned>>
    /\ UNCHANGED <<ratio_vars, calls, pllarith>>

\* setup_lse: LSEON and, by the bypass flag, LSEBYP or the drive strength.
setup_lse_bdcr ==
    /\ pc = "setup_lse_bdcr"
    /\ IF Unwrap(cfg.lse).bypass
       THEN /\ rcc' = [rcc EXCEPT !.bdcr.lseon = TRUE, !.bdcr.lsebyp = TRUE]
            /\ Wrote(<<"bdcr.lseon", "bdcr.lsebyp">>)
       ELSE /\ rcc' = [rcc EXCEPT !.bdcr.lseon = TRUE, !.bdcr.lsedrv = 3]
            /\ Wrote(<<"bdcr.lseon", "bdcr.lsedrv">>)
    /\ Goto("setup_lse_rdy")
    /\ UNCHANGED <<cfg, acr, pwr, clocks, sysclk, hclk, err, returned>>
    /\ UNCHANGED <<ratio_vars, calls, pllarith>>

\* setup_lse: once LSE runs, the clock security system needs LSI.
setup_lse_rdy ==
    /\ pc = "setup_lse_rdy"
    /\ rcc.bdcr.lserdy
    /\ IF Unwrap(cfg.lse).css
       THEN IF ~cfg.lsi_on
            THEN /\ fail(E_LSE_CSS)
                 /\ UNCHANGED clocks
            ELSE /\ Goto("setup_lse_csson")
                 /\ UNCHANGED <<err, clocks>>
       ELSE /\ clocks' = [clocks EXCEPT !.lse = TRUE]
            /\ Goto("setup_hse")
            /\ UNCHANGED err
    /\ UNCHANGED <<cfg, rcc, acr, pwr, sysclk, hclk, returned, log>>
    /\ UNCHANGED <<ratio_vars, calls, pllarith>>

setup_lse_csson ==
    /\ pc = "setup_lse_csson"
    /\ rcc' = [rcc EXCEPT !.bdcr.lsecsson = TRUE]
    /\ Wrote(<<"bdcr.lsecsson">>)
    /\ Goto("setup_lse_cssie")
    /\ UNCHANGED <<cfg, acr, pwr, clocks, sysclk, hclk, err, returned>>
    /\ UNCHANGED <<ratio_vars, calls, pllarith>>

setup_lse_cssie ==
    /\ pc = "setup_lse_cssie"
    /\ rcc' = [rcc EXCEPT !.cier.lsecssie = TRUE]
    /\ Wrote(<<"cier.lsecssie">>)
    /\ clocks' = [clocks EXCEPT !.lse = TRUE]
    /\ Goto("setup_hse")
    /\ UNCHANGED <<cfg, acr, pwr, sysclk, hclk, err, returned>>
    /\ UNCHANGED <<ratio_vars, calls, pllarith>>

\* setup_hse, HseConfig::freeze: rcc.cr.write of HSEON and HSEBYP.
setup_hse ==
    /\ pc = "setup_hse"
    /\ IF IsSome(cfg.hse)
       THEN /\ rcc' = [rcc EXCEPT !.cr = [cr_write_base(@) EXCEPT
                                             !.hseon = TRUE,
                                             !.hsebyp = Unwrap(cfg.hse).bypass]]
            /\ Wrote(<<"cr.write", "cr.hseon">>
                     \o IF Unwrap(cfg.hse).bypass THEN <<"cr.hsebyp">> ELSE <<>>)
            /\ Goto("setup_hse_rdy")
       ELSE /\ UNCHANGED <<rcc, log>>
            /\ Goto("setup_hsi48")
    /\ UNCHANGED <<cfg, acr, pwr, clocks, sysclk, hclk, err, returned>>
    /\ UNCHANGED <<ratio_vars, calls, pllarith>>

setup_hse_rdy ==
    /\ pc = "setup_hse_rdy"
    /\ rcc.cr.hserdy
    /\ IF Unwrap(cfg.hse).css
       THEN /\ Goto("setup_hse_csson")
            /\ UNCHANGED clocks
       ELSE /\ clocks' = [clocks EXCEPT !.hse = Some(Unwrap(cfg.hse).speed)]
            /\ Goto("setup_hsi48")
    /\ UNCHANGED <<cfg, rcc, acr, pwr, sysclk, hclk, err, returned, log>>
    /\ UNCHANGED <<ratio_vars, calls, pllarith>>

setup_hse_csson ==
    /\ pc = "setup_hse_csson"
    /\ rcc' = [rcc EXCEPT !.cr.csson = TRUE]
    /\ Wrote(<<"cr.csson">>)
    /\ clocks' = [clocks EXCEPT !.hse = Some(Unwrap(cfg.hse).speed)]
    /\ Goto("setup_hsi48")
    /\ UNCHANGED <<cfg, acr, pwr, sysclk, hclk, err, returned>>
    /\ UNCHANGED <<ratio_vars, calls, pllarith>>

setup_hsi48 ==
    /\ pc = "setup_hsi48"
    /\ IF cfg.hsi48_on
       THEN /\ rcc' = [rcc EXCEPT !.crrcr.hsi48on = TRUE]
            /\ Wrote(<<"crrcr.hsi48on">>)
            /\ Goto("setup_hsi48_rdy")
       ELSE /\ UNCHANGED <<rcc, log>>
            /\ Goto("setup_hsi16")
    /\ UNCHANGED <<cfg, acr, pwr, clocks, sysclk, hclk, err, returned>>
    /\ UNCHANGED <<ratio_vars, calls, pllarith>>

setup_hsi48_rdy ==
    /\ pc = "setup_hsi48_rdy"
    /\ rcc.crrcr.hsi48rdy
    /\ clocks' = [clocks EXCEPT !.hsi48 = TRUE]
    /\ Goto("setup_hsi16")
    /\ UNCHANGED <<cfg, rcc, acr, pwr, sysclk, hclk, err, returned, log>>
    /\ UNCHANGED <<ratio_vars, calls, pllarith>>

\* setup_hsi16: rcc.cr.write of HSION.
setup_hsi16 ==
    /\ pc = "setup_hsi16"
    /\ IF cfg.hsi16_on
       THEN /\ rcc' = [rcc EXCEPT !.cr = [cr_write_base(@) EXCEPT !.hsion = TRUE]]
            /\ Wrote(<<"cr.write", "cr.hsion">>)
            /\ Goto("setup_hsi16_rdy")
       ELSE /\ UNCHANGED <<rcc, log>>
            /\ Goto("setup_pll")
    /\ UNCHANGED <<cfg, acr, pwr, clocks, sysclk, hclk, err, returned>>
    /\ UNCHANGED <<ratio_vars, calls, pllarith>>

setup_hsi16_rdy ==
    /\ pc = "setup_hsi16_rdy"
    /\ rcc.cr.hsirdy
    /\ Goto("setup_pll")
    /\ UNCHANGED <<cfg, rcc, acr, pwr, clocks, sysclk, hclk, err, returned, log>>
    /\ UNCHANGED <<ratio_vars, calls, pllarith>>


\* setup_pll, PllConfig::freeze: the checks, then the write of RCC_PLLCFGR.
setup_pll ==
    /\ pc = "setup_pll"
    /\ IF IsSome(cfg.pll)
       THEN LET pll == Unwrap(cfg.pll)
                out == PllConfig_check(pll, cfg)
            IN  IF out.ok
                THEN /\ rcc' = [rcc EXCEPT
                                  !.pllcfgr.pllsrc = PllSource_source_bits(pll.source),
                                  !.pllcfgr.pllm = pll.in_div - 1,
                                  !.pllcfgr.pllr = PllOutputDivider_bits(pll.out_div),
                                  !.pllcfgr.plln = pll.out_mul]
                     /\ Wrote(<<"pllcfgr.pllsrc", "pllcfgr.pllm", "pllcfgr.pllr",
                                "pllcfgr.plln">>)
                     /\ Goto("setup_pll_on")
                     /\ UNCHANGED err
                ELSE /\ fail(out.v)
                     /\ UNCHANGED <<rcc, log>>
       ELSE /\ UNCHANGED <<rcc, log, err>>
            /\ Goto("create_sysclk_config")
    /\ UNCHANGED <<cfg, acr, pwr, clocks, sysclk, hclk, returned>>
    /\ UNCHANGED <<ratio_vars, calls, pllarith>>

setup_pll_on ==
    /\ pc = "setup_pll_on"
    /\ rcc' = [rcc EXCEPT !.cr.pllon = TRUE]
    /\ Wrote(<<"cr.pllon">>)
    /\ Goto("setup_pll_rdy")
    /\ UNCHANGED <<cfg, acr, pwr, clocks, sysclk, hclk, err, returned>>
    /\ UNCHANGED <<ratio_vars, calls, pllarith>>

setup_pll_rdy_NoWait ==
    /\ pc = "setup_pll_rdy"
    /\ Goto("setup_pll_ren")
    /\ UNCHANGED <<cfg, rcc, acr, pwr, clocks, sysclk, hclk, err, returned, log>>
    /\ UNCHANGED <<ratio_vars, calls, pllarith>>

setup_pll_rdy ==
    /\ pc = "setup_pll_rdy"
    /\ rcc.cr.pllrdy
    /\ Goto("setup_pll_ren")
    /\ UNCHANGED <<cfg, rcc, acr, pwr, clocks, sysclk, hclk, err, returned, log>>
    /\ UNCHANGED <<ratio_vars, calls, pllarith>>

setup_pll_ren ==
    /\ pc = "setup_pll_ren"
    /\ rcc' = [rcc EXCEPT !.pllcfgr.pllren = TRUE]
    /\ Wrote(<<"pllcfgr.pllren">>)
    /\ clocks' = [clocks EXCEPT !.pll = Some(PllConfig_check(Unwrap(cfg.pll), cfg).v)]
    /\ Goto("create_sysclk_config")
    /\ UNCHANGED <<cfg, acr, pwr, sysclk, hclk, err, returned>>
    /\ UNCHANGED <<ratio_vars, calls, pllarith>>

\* let sysclk = self.create_sysclk_config(); let hclk = self.create_hclk_config(&sysclk);
create_configs ==
    /\ pc = "create_sysclk_config"
    /\ LET s == create_sysclk_config(cfg) IN
       IF s.ok
       THEN /\ sysclk' = Some(s.v)
            /\ hclk' = Some(create_hclk_config(cfg, s.v))
            /\ Goto("setup_pclk1")
            /\ UNCHANGED err
       ELSE /\ fail(s.v)
            /\ UNCHANGED <<sysclk, hclk>>
    /\ UNCHANGED <<cfg, rcc, acr, pwr, clocks, returned, log>>
    /\ UNCHANGED <<ratio_vars, calls, pllarith>>

\* setup_periph_clocks: pclk1_config.freeze(hclk.freq(), rcc)
setup_pclk1 ==
    /\ pc = "setup_pclk1"
    /\ LET h == Unwrap(hclk)
           freq == IF IsSome(cfg.pclk1) THEN Unwrap(cfg.pclk1) ELSE h
           r == Pclk_freeze(freq, h)
       IN  IF ~r.ok
           THEN /\ fail(E_PCLK1_RATIO)
                /\ UNCHANGED <<rcc, log, clocks>>
           ELSE /\ rcc' = [rcc EXCEPT !.cfgr.ppre1 = Prescaler_bits(r.v.divider)]
                /\ Wrote(<<"cfgr.ppre1">>)
                /\ clocks' = [clocks EXCEPT !.pclk1 = r.v.pclk, !.timclk1 = r.v.timclk]
                /\ Goto("setup_pclk2")
                /\ UNCHANGED err
    /\ UNCHANGED <<cfg, acr, pwr, sysclk, hclk, returned>>
    /\ UNCHANGED <<ratio_vars, calls, pllarith>>

setup_pclk2_SkipFlash ==
    /\ pc = "setup_pclk2"
    /\ LET h == Unwrap(hclk)
           freq == IF IsSome(cfg.pclk2) THEN Unwrap(cfg.pclk2) ELSE h
           r == Pclk_freeze(freq, h)
       IN  IF ~r.ok
           THEN /\ fail(E_PCLK2_RATIO)
                /\ UNCHANGED <<rcc, log, clocks>>
           ELSE /\ rcc' = [rcc EXCEPT !.cfgr.ppre2 = Prescaler_bits(r.v.divider)]
                /\ Wrote(<<"cfgr.ppre2">>)
                /\ clocks' = [clocks EXCEPT !.pclk2 = r.v.pclk, !.timclk2 = r.v.timclk]
                /\ Goto("configure_msi")
                /\ UNCHANGED err
    /\ UNCHANGED <<cfg, acr, pwr, sysclk, hclk, returned>>
    /\ UNCHANGED <<ratio_vars, calls, pllarith>>

\* setup_periph_clocks: pclk2_config.freeze(hclk.freq(), rcc)
setup_pclk2 ==
    /\ pc = "setup_pclk2"
    /\ LET h == Unwrap(hclk)
           freq == IF IsSome(cfg.pclk2) THEN Unwrap(cfg.pclk2) ELSE h
           r == Pclk_freeze(freq, h)
       IN  IF ~r.ok
           THEN /\ fail(E_PCLK2_RATIO)
                /\ UNCHANGED <<rcc, log, clocks>>
           ELSE /\ rcc' = [rcc EXCEPT !.cfgr.ppre2 = Prescaler_bits(r.v.divider)]
                /\ Wrote(<<"cfgr.ppre2">>)
                /\ clocks' = [clocks EXCEPT !.pclk2 = r.v.pclk, !.timclk2 = r.v.timclk]
                /\ Goto("adjust_flash_wait_states")
                /\ UNCHANGED err
    /\ UNCHANGED <<cfg, acr, pwr, sysclk, hclk, returned>>
    /\ UNCHANGED <<ratio_vars, calls, pllarith>>

adjust_flash_wait_states ==
    /\ pc = "adjust_flash_wait_states"
    /\ acr' = [acr EXCEPT !.latency = flash_latency_bits(Unwrap(hclk))]
    /\ Wrote(<<"acr.latency">>)
    /\ Goto("configure_msi")
    /\ UNCHANGED <<cfg, rcc, pwr, clocks, sysclk, hclk, err, returned>>
    /\ UNCHANGED <<ratio_vars, calls, pllarith>>

\* configure_msi, MsiFreq::freeze: range, MSIRGSEL, MSION, and MSIPLLEN with an LSE.
configure_msi ==
    /\ pc = "configure_msi"
    /\ IF IsSome(cfg.msi)
       THEN /\ rcc' = [rcc EXCEPT !.cr.msirange = Unwrap(cfg.msi),
                                  !.cr.msirgsel = TRUE,
                                  !.cr.msion = TRUE,
                                  !.cr.msipllen = IF IsSome(cfg.lse) THEN TRUE ELSE @]
            /\ Wrote(<<"cr.msirange", "cr.msirgsel", "cr.msion">>
                     \o IF IsSome(cfg.lse) THEN <<"cr.msipllen">> ELSE <<>>)
            /\ Goto("configure_msi_rdy")
       ELSE /\ UNCHANGED <<rcc, log>>
            /\ Goto("setup_sysclk")
    /\ UNCHANGED <<cfg, acr, pwr, clocks, sysclk, hclk, err, returned>>
    /\ UNCHANGED <<ratio_vars, calls, pllarith>>

configure_msi_rdy ==
    /\ pc = "configure_msi_rdy"
    /\ rcc.cr.msirdy
    /\ clocks' = [clocks EXCEPT !.msi = Some(Unwrap(cfg.msi))]
    /\ Goto("setup_sysclk")
    /\ UNCHANGED <<cfg, rcc, acr, pwr, sysclk, hclk, err, returned, log>>
    /\ UNCHANGED <<ratio_vars, calls, pllarith>>

\* setup_sysclk: the source and speed checks, then the write of SW.
setup_sysclk ==
    /\ pc = "setup_sysclk"
    /\ LET config == Unwrap(sysclk)
           r == sysclk_check(cfg, config)
       IN  IF r.ok
           THEN /\ rcc' = [rcc EXCEPT !.cfgr.sw = SysclkSource_bits(config.source_clock)]
                /\ Wrote(<<"cfgr.sw">>)
                /\ Goto("setup_sysclk_sws")
                /\ UNCHANGED err
           ELSE /\ fail(r.v)
                /\ UNCHANGED <<rcc, log>>
    /\ UNCHANGED <<cfg, acr, pwr, clocks, sysclk, hclk, returned>>
    /\ UNCHANGED <<ratio_vars, calls, pllarith>>

setup_sysclk_sws ==
    /\ pc = "setup_sysclk_sws"
    /\ rcc.cfgr.sws = SysclkSource_bits(Unwrap(sysclk).source_clock)
    /\ clocks' = [clocks EXCEPT !.sysclk = Unwrap(sysclk).speed]
    /\ Goto("setup_hclk")
    /\ UNCHANGED <<cfg, rcc, acr, pwr, sysclk, hclk, err, returned, log>>
    /\ UNCHANGED <<ratio_vars, calls, pllarith>>

\* setup_hclk: clocks.hclk, then HclkConfig::freeze(sysclk.speed, rcc).
setup_hclk ==
    /\ pc = "setup_hclk"
    /\ clocks' = [clocks EXCEPT !.hclk = Unwrap(hclk)]
    /\ LET divider == HclkDivider_from_ratio(Unwrap(sysclk).speed, Unwrap(hclk)) IN
       IF divider = Panic
       THEN /\ fail(E_HCLK_RATIO)
            /\ UNCHANGED <<rcc, log>>
       ELSE /\ rcc' = [rcc EXCEPT !.cfgr.hpre = HclkDivider_bits(divider)]
            /\ Wrote(<<"cfgr.hpre">>)
            /\ Goto("clean_msi")
            /\ UNCHANGED err
    /\ UNCHANGED <<cfg, acr, pwr, sysclk, hclk, returned>>
    /\ UNCHANGED <<ratio_vars, calls, pllarith>>

\* clean_msi, and the return of `clocks`.
clean_msi ==
    /\ pc = "clean_msi"
    /\ IF cfg.msi = None
       THEN /\ rcc' = [rcc EXCEPT !.cr.msion = FALSE, !.cr.msipllen = FALSE]
            /\ Wrote(<<"cr.msion", "cr.msipllen">>)
       ELSE UNCHANGED <<rcc, log>>
    /\ returned' = Some(clocks)
    /\ Goto("done")
    /\ UNCHANGED <<cfg, acr, pwr, clocks, sysclk, hclk, err>>
    /\ UNCHANGED <<ratio_vars, calls, pllarith>>


\* ------------------------------------------------------------------------
\* Divider resolution alone: from_ratio of each bus class on a drawn pair.

resolve_hclk_divider ==
    /\ resolved.hclk = "Unset"
    /\ resolved' = [resolved EXCEPT
                      !.hclk = HclkDivider_from_ratio(ratio.source, ratio.target)]
    /\ UNCHANGED <<ratio, calls, pllarith>>
    /\ UNCHANGED freeze_vars

resolve_pclk_divider ==
    /\ resolved.pclk = "Unset"
    /\ resolved' = [resolved EXCEPT
                      !.pclk = Prescaler_from_ratio(ratio.source, ratio.target)]
    /\ UNCHANGED <<ratio, calls, pllarith>>
    /\ UNCHANGED freeze_vars

\* ------------------------------------------------------------------------
\* The PLL arithmetic alone: PllConfig::freeze's computation on a drawn
\* configuration and clock frequency.

PllArithIdle == [pll |-> None, clock_freq |-> 0, outcome |-> None]

pll_commit_arith ==
    /\ IsSome(pllarith.pll)
    /\ pllarith.outcome = None
    /\ pllarith' = [pllarith EXCEPT
                       !.outcome = Some(PllConfig_arith(Unwrap(pllarith.pll),
                                                        pllarith.clock_freq))]
    /\ UNCHANGED <<ratio, resolved, calls>>
    /\ UNCHANGED freeze_vars

\* ------------------------------------------------------------------------
\* The configurations explored. Each family varies the fields of one part of
\* the clock tree together and leaves the others at CFGR::default().

MaxSource == 1030
MaxTarget == 3

HseSpeeds == {MHz(8), MHz(48)}
HseConfigs == [speed : HseSpeeds, bypass : BOOLEAN, css : BOOLEAN]
HsePlain(f) == [speed |-> f, bypass |-> FALSE, css |-> FALSE]
LseConfigs == [bypass : BOOLEAN, css : BOOLEAN]
MsiRanges == {RANGE4M, RANGE48M}
Opt(S) == {None} \cup {Some(x) : x \in S}
SysclkConfigOf(source, f) == [speed |-> f, source_clock |-> source]

\* The PLL configurations: those of the parameter sets that PllConfig::new
\* accepts, and one whose two divisions both truncate.
PllTargets == {MHz(80), MHz(40), MHz(20)}
PllInDivs == {1, 2, 4}
PllOutMuls == {8, 10, 20, 40}
PllOutDivs == {"Div2", "Div4"}
PllTruncating ==
    PllConfig_new("HSI16", 39999997, 3, 15, "Div2").v
\* MSI at 48 MHz as input: 12 MHz into the VCO, 144 MHz out of it, 72 MHz.
PllMsi48 ==
    PllConfig_new("MSI", MHz(72), 4, 12, "Div2").v
PllConfigs ==
    { PllConfig_new(s, t, i, m, d).v :
        <<s, t, i, m, d>> \in { x \in PllSources \X PllTargets \X PllInDivs
                                      \X PllOutMuls \X PllOutDivs :
                                  PllConfig_new(x[1], x[2], x[3], x[4], x[5]).ok } }
    \cup {PllTruncating, PllMsi48}
Pll80 == PllConfig_new("HSI16", MHz(80), 1, 10, "Div2").v

\* Low-speed oscillators, HSI48 and MSI.
ConfigsLowSpeed ==
    { [CFGR_default EXCEPT !.lse = l, !.lsi_on = i, !.hsi48_on = h, !.msi = m,
                           !.sysclk = s] :
        l \in Opt(LseConfigs), i \in BOOLEAN, h \in BOOLEAN, m \in Opt(MsiRanges),
        s \in {None, Some(SysclkConfigOf("MSI", MHz(4)))} }

\* High-speed oscillators and the system clock taken from one of them.
ConfigsHighSpeed ==
    { [CFGR_default EXCEPT !.hse = e, !.hsi16_on = i, !.msi = m, !.sysclk = s] :
        e \in Opt(HseConfigs), i \in BOOLEAN, m \in Opt(MsiRanges),
        s \in {None, Some(SysclkConfigOf("MSI", MHz(4))),
               Some(SysclkConfigOf("HSI16", MHz(16))),
               Some(SysclkConfigOf("HSE", MHz(8)))} }

\* The PLL, its input and the system clock taken from it.
ConfigsPll ==
    { [CFGR_default EXCEPT !.pll = Some(p), !.hse = e, !.hsi16_on = i, !.msi = m,
                           !.sysclk = s] :
        p \in PllConfigs, e \in {None, Some(HsePlain(MHz(8)))}, i \in BOOLEAN,
        m \in Opt(MsiRanges),
        s \in {None, Some(SysclkConfigOf("PLL", MHz(80)))} }

\* The system-clock selection against every set of enabled sources.
SysclkFreqs == {MHz(4), MHz(16), MHz(48), MHz(80)}
ConfigsSysclk ==
    { [CFGR_default EXCEPT !.sysclk = s, !.hse = e, !.hsi16_on = i, !.msi = m,
                           !.pll = p] :
        s \in Opt({SysclkConfigOf(src, f) : src \in SysclkSources, f \in SysclkFreqs}),
        e \in {None, Some(HsePlain(MHz(48)))}, i \in BOOLEAN, m \in Opt(MsiRanges),
        p \in {None, Some(Pll80)} }

\* The bus dividers under a system clock that is consistent with its source.
BusSources ==
    { [CFGR_default EXCEPT !.hsi16_on = TRUE,
                           !.sysclk = Some(SysclkConfigOf("HSI16", MHz(16)))],
      [CFGR_default EXCEPT !.hsi16_on = TRUE, !.pll = Some(Pll80),
                           !.sysclk = Some(SysclkConfigOf("PLL", MHz(80)))],
      [CFGR_default EXCEPT !.hse = Some(HsePlain(MHz(48))),
                           !.sysclk = Some(SysclkConfigOf("HSE", MHz(48)))],
      [CFGR_default EXCEPT !.msi = Some(RANGE48M)],
      [CFGR_default EXCEPT !.msi = Some(RANGE4M), !.lsi_on = TRUE,
                           !.lse = Some([bypass |-> FALSE, css |-> TRUE])] }
HclkFreqs == {MHz(80), MHz(40), MHz(24), MHz(16), 2500000, 1500000, 125000}
PclkFreqs == {MHz(40), MHz(8), MHz(5), 1500000, 125000, 0}
ConfigsBus ==
    { [b EXCEPT !.hclk = h, !.pclk1 = p1, !.pclk2 = p2] :
        b \in BusSources, h \in Opt(HclkFreqs), p1 \in Opt(PclkFreqs),
        p2 \in Opt(PclkFreqs) }

\* The core-bus frequencies at the steps of the flash latency table.
FlashFreqs ==
    {15999999, 16000000, 16000001, 32000000, 32000001, 48000000, 48000001,
     64000000, 64000001, 80000000}
ConfigsFlash ==
    { [CFGR_default EXCEPT !.msi = Some(RANGE4M), !.hclk = Some(h)] :
        h \in FlashFreqs }

\* An HSE whose declared speed is above MAX_CLOCK_SPEED, as system clock.
ConfigsFastHse ==
    { [CFGR_default EXCEPT !.hse = Some(HsePlain(MHz(100))), !.msi = m,
                           !.sysclk = Some(SysclkConfigOf("HSE", MHz(100)))] :
        m \in Opt(MsiRanges) }

Configs ==
    ConfigsLowSpeed \cup ConfigsHighSpeed \cup ConfigsPll \cup ConfigsSysclk
    \cup ConfigsBus \cup ConfigsFlash \cup ConfigsFastHse

\* ------------------------------------------------------------------------
\* The CFGR builder alone: the setters, each on arguments of a small set.
\* A call is recorded with its arguments before it runs.

MaxCalls == 3

BuilderFreqs == {MHz(8), MHz(16)}
BuilderPllArgs ==
    [source : {"HSI16"}, target_freq : {MHz(24), MHz(80), MHz(81)},
     in_div : {0, 1, 9}, out_mul : {3, 10, 87}, out_div : {"Div2"}]

Called(op, arg) == calls' = Append(calls, [op |-> op, arg |-> arg])

BuilderStep ==
    /\ pc = "builder"
    /\ Len(calls) < MaxCalls
    /\ UNCHANGED <<rcc, acr, pwr, clocks, sysclk, hclk, returned, log>>
    /\ UNCHANGED <<ratio_vars, pllarith>>

enable_hse ==
    /\ BuilderStep
    /\ \E freq \in BuilderFreqs, bypass \in BOOLEAN, css \in {FALSE} :
          /\ Called("enable_hse", [speed |-> freq, bypass |-> bypass, css |-> css])
          /\ cfg' = [cfg EXCEPT !.hse = Some([speed |-> freq, bypass |-> bypass,
                                              css |-> css])]
    /\ UNCHANGED <<pc, err>>

enable_lse ==
    /\ BuilderStep
    /\ \E bypass \in BOOLEAN, css \in {TRUE} :
          /\ Called("enable_lse", [bypass |-> bypass, css |-> css])
          /\ cfg' = [cfg EXCEPT !.lse = Some([bypass |-> bypass, css |-> css])]
    /\ UNCHANGED <<pc, err>>

set_hclk_freq ==
    /\ BuilderStep
    /\ \E freq \in BuilderFreqs :
          /\ Called("set_hclk_freq", freq)
          /\ cfg' = [cfg EXCEPT !.hclk = Some(freq)]
    /\ UNCHANGED <<pc, err>>

enable_hsi48 ==
    /\ BuilderStep
    /\ \E on \in BOOLEAN :
          /\ Called("enable_hsi48", on)
          /\ cfg' = [cfg EXCEPT !.hsi48_on = on]
    /\ UNCHANGED <<pc, err>>

enable_hsi16 ==
    /\ BuilderStep
    /\ \E on \in BOOLEAN :
          /\ Called("enable_hsi16", on)
          /\ cfg' = [cfg EXCEPT !.hsi16_on = on]
    /\ UNCHANGED <<pc, err>>

enable_msi ==
    /\ BuilderStep
    /\ \E range \in MsiRanges :
          /\ Called("enable_msi", range)
          /\ cfg' = [cfg EXCEPT !.msi = Some(range)]
    /\ UNCHANGED <<pc, err>>

set_lsi_Sticky ==
    /\ BuilderStep
    /\ \E on \in BOOLEAN :
          /\ Called("set_lsi", on)
          /\ cfg' = [cfg EXCEPT !.lsi_on = @ \/ on]
    /\ UNCHANGED <<pc, err>>

set_lsi ==
    /\ BuilderStep
    /\ \E on \in BOOLEAN :
          /\ Called("set_lsi", on)
          /\ cfg' = [cfg EXCEPT !.lsi_on = on]
    /\ UNCHANGED <<pc, err>>

set_pclk1_freq ==
    /\ BuilderStep
    /\ \E freq \in BuilderFreqs :
          /\ Called("set_pclk1_freq", freq)
          /\ cfg' = [cfg EXCEPT !.pclk1 = Some(freq)]
    /\ UNCHANGED <<pc, err>>

set_pclk2_freq ==
    /\ BuilderStep
    /\ \E freq \in BuilderFreqs :
          /\ Called("set_pclk2_freq", freq)
          /\ cfg' = [cfg EXCEPT !.pclk2 = Some(freq)]
    /\ UNCHANGED <<pc, err>>

set_sysclk ==
    /\ BuilderStep
    /\ \E source \in {"MSI", "PLL"}, freq \in {MHz(16)} :
          /\ Called("set_sysclk", SysclkConfigOf(source, freq))
          /\ cfg' = [cfg EXCEPT !.sysclk = Some(SysclkConfigOf(source, freq))]
    /\ UNCHANGED <<pc, err>>

\* enable_pll: PllConfig::new asserts its arguments before the field is set.
enable_pll ==
    /\ BuilderStep
    /\ \E a \in BuilderPllArgs :
          /\ Called("enable_pll", a)
          /\ LET r == PllConfig_new(a.source, a.target_freq, a.in_div, a.out_mul,
                                    a.out_div)
             IN  IF r.ok
                 THEN /\ cfg' = [cfg EXCEPT !.pll = Some(r.v)]
                      /\ UNCHANGED <<pc, err>>
                 ELSE /\ fail(E_PLL_NEW)
                      /\ UNCHANGED cfg

\* enable_pll_autosetting: the body is todo!(), so every call panics and no
\* builder is returned, whatever the arguments.
BuilderAutoArgs ==
    [source : {"HSI16", "MSI"}, source_freq : {MHz(4), MHz(16)},
     target_freq : {MHz(80)}]

enable_pll_autosetting ==
    /\ BuilderStep
    /\ \E a \in BuilderAutoArgs :
          /\ Called("enable_pll_autosetting", a)
          /\ fail(E_TODO)
          /\ UNCHANGED cfg

\* ------------------------------------------------------------------------
\* Specifications

FreezeStart(c, h) ==
    /\ cfg = c
    /\ rcc = h.rcc
    /\ acr = h.acr
    /\ pwr = h.pwr
    /\ clocks = Clocks_default
    /\ sysclk = None
    /\ hclk = None
    /\ err = None
    /\ returned = None
    /\ log = <<>>

\* freeze is entered with a configuration the builder accepted.
Init ==
    /\ \E c \in Configs, h \in HwInits : FreezeStart(c, h)
    /\ pc = "reset_clocks"
    /\ ratio = [source |-> 0, target |-> 0]
    /\ resolved = [hclk |-> "Unset", pclk |-> "Unset"]
    /\ calls = <<>>
    /\ pllarith = PllArithIdle

Next ==
    \/ reset_clocks_msi \/ reset_clocks_msirdy \/ reset_clocks_cfgr
    \/ reset_clocks_swswait
    \/ setup_lsi \/ setup_lsi_rdy
    \/ setup_lse_dbp \/ setup_lse_bdcr \/ setup_lse_rdy \/ setup_lse_csson
    \/ setup_lse_cssie
    \/ setup_hse \/ setup_hse_rdy \/ setup_hse_csson
    \/ setup_hsi48 \/ setup_hsi48_rdy
    \/ setup_hsi16 \/ setup_hsi16_rdy
    \/ setup_pll \/ setup_pll_on \/ setup_pll_rdy \/ setup_pll_ren
    \/ create_configs
    \/ setup_pclk1 \/ setup_pclk2
    \/ adjust_flash_wait_states
    \/ configure_msi \/ configure_msi_rdy
    \/ setup_sysclk \/ setup_sysclk_sws
    \/ setup_hclk
    \/ clean_msi
    \/ hw_ready \/ hw_pll_lock \/ hw_switch

Spec == Init /\ [][Next]_vars

\* freeze keeps running: some statement of it is taken while one can be.
FreezeStep ==
    \/ reset_clocks_msi \/ reset_clocks_msirdy \/ reset_clocks_cfgr
    \/ reset_clocks_swswait
    \/ setup_lsi \/ setup_lsi_rdy
    \/ setup_lse_dbp \/ setup_lse_bdcr \/ setup_lse_rdy \/ setup_lse_csson
    \/ setup_lse_cssie
    \/ setup_hse \/ setup_hse_rdy \/ setup_hse_csson
    \/ setup_hsi48 \/ setup_hsi48_rdy
    \/ setup_hsi16 \/ setup_hsi16_rdy
    \/ setup_pll \/ setup_pll_on \/ setup_pll_rdy \/ setup_pll_ren
    \/ create_configs
    \/ setup_pclk1 \/ setup_pclk2
    \/ adjust_flash_wait_states
    \/ configure_msi \/ configure_msi_rdy
    \/ setup_sysclk \/ setup_sysclk_sws
    \/ setup_hclk
    \/ clean_msi

\* Well-behaved hardware: a ready flag follows its enable bit, the PLL locks
\* while enabled on a running input, SWS follows SW once the source is ready.
SpecFair ==
    /\ Init /\ [][Next]_vars
    /\ WF_vars(FreezeStep)
    /\ WF_vars(hw_ready) /\ WF_vars(hw_pll_lock) /\ WF_vars(hw_switch)

\* Divider resolution on every pair of the bounded frequencies.
InitRatio ==
    /\ FreezeStart(CFGR_default, HwReset)
    /\ pc = "idle"
    /\ ratio \in [source : 0..MaxSource, target : 0..MaxTarget]
    /\ resolved = [hclk |-> "Unset", pclk |-> "Unset"]
    /\ calls = <<>>
    /\ pllarith = PllArithIdle

NextRatio == resolve_hclk_divider \/ resolve_pclk_divider

SpecRatio == InitRatio /\ [][NextRatio]_vars

\* The PLL arithmetic on the configurations PllConfig::new accepts, at the
\* ends of its argument ranges, and clock frequencies up to 2^31 - 1.
PllArithFreqs ==
    {0, 3999999, 4000000, 16000000, 16000001, 48000000, 128000000, 128000007,
     2147483647}
PllArithConfigs ==
    { PllConfig_new("HSE", t, i, m, d).v :
        <<t, i, m, d>> \in { x \in {MHz(20), MHz(80)} \X {1, 3, 8} \X {8, 43, 86}
                                   \X PllOutputDividers :
                               PllConfig_new("HSE", x[1], x[2], x[3], x[4]).ok } }

InitPllArith ==
    /\ FreezeStart(CFGR_default, HwReset)
    /\ pc = "idle"
    /\ ratio = [source |-> 0, target |-> 0]
    /\ resolved = [hclk |-> "Unset", pclk |-> "Unset"]
    /\ calls = <<>>
    /\ \E p \in PllArithConfigs, f \in PllArithFreqs :
          pllarith = [pll |-> Some(p), clock_freq |-> f, outcome |-> None]

NextPllArith == pll_commit_arith

SpecPllArith == InitPllArith /\ [][NextPllArith]_vars

\* The builder from CFGR::default(), up to MaxCalls setter calls.
InitBuilder ==
    /\ FreezeStart(CFGR_default, HwReset)
    /\ pc = "builder"
    /\ ratio = [source |-> 0, target |-> 0]
    /\ resolved = [hclk |-> "Unset", pclk |-> "Unset"]
    /\ calls = <<>>
    /\ pllarith = PllArithIdle

NextBuilder ==
    \/ enable_hse \/ enable_lse \/ set_hclk_freq \/ enable_hsi48 \/ enable_hsi16
    \/ enable_msi \/ set_lsi \/ set_pclk1_freq \/ set_pclk2_freq \/ set_sysclk
    \/ enable_pll \/ enable_pll_autosetting

SpecBuilder == InitBuilder /\ [][NextBuilder]_vars


\* ------------------------------------------------------------------------
\* The order of the positions of freeze, and the clock tree the registers
\* select, as the hardware decodes them.

FreezeOrder ==
    <<"reset_clocks", "reset_clocks_msirdy", "reset_clocks_sws", "reset_clocks_swswait",
      "setup_lsi", "setup_lsi_rdy",
      "setup_lse", "setup_lse_bdcr", "setup_lse_rdy", "setup_lse_csson", "setup_lse_cssie",
      "setup_hse", "setup_hse_rdy", "setup_hse_csson",
      "setup_hsi48", "setup_hsi48_rdy", "setup_hsi16", "setup_hsi16_rdy",
      "setup_pll", "setup_pll_on", "setup_pll_rdy", "setup_pll_ren",
      "create_sysclk_config", "setup_pclk1", "setup_pclk2",
      "adjust_flash_wait_states", "configure_msi", "configure_msi_rdy",
      "setup_sysclk", "setup_sysclk_sws", "setup_hclk", "clean_msi", "done">>

\* The positions of freeze after position l.
After(l) ==
    LET i == CHOOSE k \in DOMAIN FreezeOrder : FreezeOrder[k] = l
    IN  { FreezeOrder[k] : k \in (i + 1)..Len(FreezeOrder) }

Written(name) == \E k \in DOMAIN log : log[k] = name

\* The MSI frequency in effect: MSIRANGE with MSIRGSEL set, else the range
\* of RCC_CSR.MSISRANGE, which freeze never writes (4 MHz after reset).
hw_msi_freq(r) ==
    IF r.cr.msirgsel THEN MsiFreq_to_hertz(r.cr.msirange) ELSE MHz(4)

hw_hse_freq(c) == IF IsSome(c.hse) THEN Unwrap(c.hse).speed ELSE 0

hw_pll_freq(c, r) ==
    LET input == CASE r.pllcfgr.pllsrc = 1 -> hw_msi_freq(r)
                   [] r.pllcfgr.pllsrc = 2 -> HSI16_FREQ
                   [] r.pllcfgr.pllsrc = 3 -> hw_hse_freq(c)
                   [] OTHER -> 0
    IN  ((input \div (r.pllcfgr.pllm + 1)) * r.pllcfgr.plln)
            \div (2 * (r.pllcfgr.pllr + 1))

\* The frequency of the clock that SWS reports as the system clock.
hw_sysclk_freq(c, r) ==
    CASE r.cfgr.sws = 0 -> hw_msi_freq(r)
      [] r.cfgr.sws = 1 -> HSI16_FREQ
      [] r.cfgr.sws = 2 -> hw_hse_freq(c)
      [] r.cfgr.sws = 3 -> hw_pll_freq(c, r)

\* HPRE: 0xxx is no division, 1xxx the divider with these bits.
hw_hpre_factor(bits) ==
    IF bits < 8 THEN 1
    ELSE HclkDivider_div_factor(CHOOSE d \in HclkDividers : HclkDivider_bits(d) = bits)

hw_hclk_freq(c, r) == hw_sysclk_freq(c, r) \div hw_hpre_factor(r.cfgr.hpre)

\* ------------------------------------------------------------------------
\* Claims

\* C1: HclkDivider::from_ratio returns a divider d with
\* div_factor(d) * target = source exactly when target divides source and the
\* ratio is one of 1, 2, 4, 8, 16, 64, 128, 256, 512; on every other pair
\* (ratio 0, a remainder, 32, anything else) it fails.
C1_HclkFromRatio ==
    resolved.hclk # "Unset" =>
        LET s == ratio.source
            t == ratio.target
            supported == /\ t # 0
                         /\ \E k \in {1, 2, 4, 8, 16, 64, 128, 256, 512} : s = k * t
        IN  /\ supported <=> resolved.hclk # Panic
            /\ resolved.hclk # Panic =>
                   /\ resolved.hclk \in HclkDividers
                   /\ HclkDivider_div_factor(resolved.hclk) * t = s
            /\ (t # 0 /\ s = 32 * t) => resolved.hclk = Panic

C1_Witness ==
    /\ ratio.source = 192 /\ ratio.target = 3 /\ resolved.hclk = "Div64"

\* C2: Prescaler::from_ratio returns a prescaler p with
\* div_factor(p) * target = source exactly when target divides source and the
\* ratio is one of 1, 2, 4, 8, 16; on every other pair it fails.
C2_PclkFromRatio ==
    resolved.pclk # "Unset" =>
        LET s == ratio.source
            t == ratio.target
            supported == /\ t # 0
                         /\ \E k \in {1, 2, 4, 8, 16} : s = k * t
        IN  /\ supported <=> resolved.pclk # Panic
            /\ resolved.pclk # Panic =>
                   /\ resolved.pclk \in Prescalers
                   /\ Prescaler_div_factor(resolved.pclk) * t = s

C2_Witness ==
    /\ ratio.source = 48 /\ ratio.target = 3 /\ resolved.pclk = "Div16"


\* C3: with the PLL's input source enabled at frequency f, the PLL commit
\* succeeds iff, with truncating division, f / in_div is in [4 MHz, 16 MHz],
\* that times out_mul is in [64 MHz, 344 MHz], and that over the output
\* divider is at most 80 MHz and equals the target; on success the frequency
\* reported is that output; otherwise freeze aborts in the PLL commit with
\* RCC_PLLCFGR unwritten and the PLL not enabled.
C3_PllCommitIff ==
    LET p == Unwrap(cfg.pll)
        enabled == CASE p.source = "HSE" -> IsSome(cfg.hse)
                     [] p.source = "HSI16" -> cfg.hsi16_on
                     [] p.source = "MSI" -> IsSome(cfg.msi)
        f == CASE p.source = "HSE" -> Unwrap(cfg.hse).speed
               [] p.source = "HSI16" -> 16000000
               [] p.source = "MSI" -> MsiHertz[Unwrap(cfg.msi) + 1]
        vin == f \div p.in_div
        vout == vin * p.out_mul
        out == vout \div PllOutputDivider_div_factor(p.out_div)
        valid == /\ vin >= 4000000 /\ vin <= 16000000
                 /\ vout >= 64000000 /\ vout <= 344000000
                 /\ out <= 80000000 /\ out = p.target_freq
        committed == Written("pllcfgr.plln") \/ Written("cr.pllon")
                     \/ Written("pllcfgr.pllren")
    IN  (IsSome(cfg.pll) /\ enabled) =>
            IF valid
            THEN /\ pc \in After("setup_pll_ren") =>
                        /\ Written("pllcfgr.plln") /\ Written("cr.pllon")
                        /\ Written("pllcfgr.pllren")
                        /\ clocks.pll = Some(out)
                 /\ IsSome(returned) => Unwrap(returned).pll = Some(out)
                 /\ pc = "panicked" =>
                        Unwrap(err) \notin {E_PLL_NO_HSE, E_PLL_NO_MSI, E_PLL_VCO_IN,
                                            E_PLL_VCO_OUT, E_PLL_MAX, E_PLL_TARGET}
            ELSE /\ ~committed
                 /\ clocks.pll = None
                 /\ returned = None
                 /\ pc \notin After("setup_pll")
                 /\ pc = "panicked" /\ Unwrap(err) # E_LSE_CSS =>
                        Unwrap(err) \in {E_PLL_VCO_IN, E_PLL_VCO_OUT, E_PLL_MAX,
                                         E_PLL_TARGET}

\* The example of the specification: 16 MHz, in_div 1, out_mul 10, Div2, 80 MHz.
C3_Witness ==
    /\ cfg.pll = Some(Pll80) /\ cfg.hsi16_on
    /\ pc = "done"
    /\ Unwrap(returned).pll = Some(MHz(80))

\* C4: the flash wait states are raised before the core bus is sped up: once
\* freeze has written them, the latency in FLASH_ACR is at least the latency
\* the table requires for the core-bus frequency in effect (the system clock
\* that SWS reports over the HPRE in the register); stated here on the
\* interval the claim names, after the system-clock switch is confirmed and
\* before the core-bus divider is written, for a core-bus target that is a
\* supported division of the system clock.
C4_FlashBeforeSpeedup ==
    (/\ pc = "setup_hclk"
     /\ Unwrap(hclk) # 0
     /\ Unwrap(sysclk).speed % Unwrap(hclk) = 0
     /\ Unwrap(sysclk).speed \div Unwrap(hclk) \in {1, 2, 4, 8, 16, 64, 128, 256, 512})
    => acr.latency >= flash_latency_bits(hw_hclk_freq(cfg, rcc))

\* C5: the system-clock commit checks the frequency: with the chosen source
\* enabled, a declared target that differs from the frequency of the source
\* makes freeze abort there with the frequency-mismatch panic, SW unwritten
\* and no Clocks returned; an equal target gets SW written with the source
\* and the sysclk of the record is that frequency.
C5_SysclkChecked ==
    IsSome(sysclk) =>
        LET config == Unwrap(sysclk)
            src == config.source_clock
            enabled == CASE src = "HSE" -> IsSome(cfg.hse)
                         [] src = "HSI16" -> cfg.hsi16_on
                         [] src = "MSI" -> IsSome(cfg.msi)
                         [] src = "PLL" -> IsSome(cfg.pll)
            f == CASE src = "HSE" -> Unwrap(cfg.hse).speed
                   [] src = "HSI16" -> 16000000
                   [] src = "MSI" -> MsiHertz[Unwrap(cfg.msi) + 1]
                   [] src = "PLL" -> Unwrap(cfg.pll).target_freq
        IN  enabled =>
            IF f # config.speed
            THEN /\ ~Written("cfgr.sw")
                 /\ returned = None
                 /\ pc \notin After("setup_sysclk")
                 /\ pc = "panicked" /\ Unwrap(err) \notin {E_PCLK1_RATIO, E_PCLK2_RATIO}
                        => Unwrap(err) = E_SYSCLK_SPEED
            ELSE /\ pc \in After("setup_sysclk") =>
                        /\ Written("cfgr.sw")
                        /\ rcc.cfgr.sw = SysclkSource_bits(src)
                 /\ pc = "panicked" =>
                        Unwrap(err) \in {E_PCLK1_RATIO, E_PCLK2_RATIO, E_HCLK_RATIO}
                 /\ IsSome(returned) => Unwrap(returned).sysclk = f

C5_Witness ==
    /\ pc = "panicked" /\ err = Some(E_SYSCLK_SPEED)
    /\ IsSome(sysclk) /\ Unwrap(sysclk).source_clock = "HSE"
    /\ Unwrap(sysclk).speed = MHz(16) /\ Unwrap(cfg.hse).speed = MHz(48)
    /\ ~Written("cfgr.sw")

\* C6: a system-clock source that the builder never enabled makes freeze
\* abort in the system-clock commit with the missing-dependency panic of that
\* source, whatever the other fields; SW is never written and no Clocks is
\* returned.
C6_SysclkSourceMissing ==
    IsSome(sysclk) =>
        LET src == Unwrap(sysclk).source_clock
            enabled == CASE src = "HSE" -> IsSome(cfg.hse)
                         [] src = "HSI16" -> cfg.hsi16_on
                         [] src = "MSI" -> IsSome(cfg.msi)
                         [] src = "PLL" -> IsSome(cfg.pll)
            missing == CASE src = "HSE" -> E_SYSCLK_NO_HSE
                         [] src = "HSI16" -> E_SYSCLK_NO_HSI16
                         [] src = "MSI" -> E_SYSCLK_NO_MSI
                         [] src = "PLL" -> E_SYSCLK_NO_PLL
        IN  ~enabled =>
                /\ ~Written("cfgr.sw")
                /\ returned = None
                /\ pc \notin After("setup_sysclk")
                /\ pc = "panicked" /\ Unwrap(err) \notin {E_PCLK1_RATIO, E_PCLK2_RATIO}
                       => /\ Unwrap(err) = missing
                          /\ missing \in MissingDependency

C6_Witness ==
    /\ pc = "panicked" /\ err = Some(E_SYSCLK_NO_HSE)
    /\ cfg.hse = None /\ IsSome(cfg.msi) /\ cfg.hsi16_on
    /\ Unwrap(sysclk) = SysclkConfigOf("HSE", MHz(48))

\* C7: a PLL whose input source (HSE, HSI16 or MSI) the builder did not
\* enable makes freeze abort in the PLL commit: RCC_PLLCFGR is not written
\* and the PLL is not enabled.
C7_PllSourceMissing ==
    LET p == Unwrap(cfg.pll)
        enabled == CASE p.source = "HSE" -> IsSome(cfg.hse)
                     [] p.source = "HSI16" -> cfg.hsi16_on
                     [] p.source = "MSI" -> IsSome(cfg.msi)
    IN  (IsSome(cfg.pll) /\ ~enabled) =>
            /\ ~Written("pllcfgr.pllsrc") /\ ~Written("pllcfgr.plln")
            /\ ~Written("cr.pllon")
            /\ pc \notin After("setup_pll")

\* C8: without a system-clock selection and without an MSI configuration
\* freeze aborts when it resolves the system clock and returns no Clocks;
\* without a selection but with MSI configured the resolved system clock is
\* MSI at the frequency of the configured range.
C8_SysclkFallback ==
    cfg.sysclk = None =>
        IF cfg.msi = None
        THEN /\ sysclk = None
             /\ returned = None
             /\ pc \notin After("create_sysclk_config")
        ELSE /\ pc \in After("create_sysclk_config") =>
                    sysclk = Some([speed |-> MsiHertz[Unwrap(cfg.msi) + 1],
                                   source_clock |-> "MSI"])
             /\ pc = "panicked" => Unwrap(err) # E_NO_SYSCLK
             /\ IsSome(returned) =>
                    Unwrap(returned).sysclk = MsiHertz[Unwrap(cfg.msi) + 1]

C8_Witness ==
    /\ cfg.sysclk = None /\ cfg.msi = None /\ cfg.hsi16_on
    /\ pc = "panicked" /\ err = Some(E_NO_SYSCLK)

\* C9: LSE clock security without LSI makes freeze abort before any register
\* write for the LSE: at the abort neither the backup-domain unlock bit nor
\* LSEON nor LSEBYP / LSEDRV has been written.
C9_LseCssBeforeWrites ==
    (pc = "panicked" /\ err = Some(E_LSE_CSS)) =>
        /\ ~Written("pwr.cr1.dbp")
        /\ ~Written("bdcr.lseon")
        /\ ~Written("bdcr.lsebyp") /\ ~Written("bdcr.lsedrv")

\* C10: the Clocks that freeze returns is consistent with the configuration
\* and the divider chain: sysclk is the declared or resolved frequency, hclk
\* times a core-bus divider factor is sysclk, pclk1 and pclk2 times a
\* prescaler factor are hclk, pll and hse are present iff configured and hold
\* the target and the speed, and lsi, lse and hsi48 are as requested.
C10_RecordConsistent ==
    IsSome(returned) =>
        LET c == Unwrap(returned) IN
        /\ c.sysclk = IF IsSome(cfg.sysclk) THEN Unwrap(cfg.sysclk).speed
                      ELSE MsiHertz[Unwrap(cfg.msi) + 1]
        /\ c.hclk # 0 /\ c.sysclk % c.hclk = 0
        /\ c.sysclk \div c.hclk \in {1, 2, 4, 8, 16, 64, 128, 256, 512}
        /\ c.pclk1 # 0 /\ c.hclk % c.pclk1 = 0
        /\ c.hclk \div c.pclk1 \in {1, 2, 4, 8, 16}
        /\ c.pclk2 # 0 /\ c.hclk % c.pclk2 = 0
        /\ c.hclk \div c.pclk2 \in {1, 2, 4, 8, 16}
        /\ c.pll = IF IsSome(cfg.pll) THEN Some(Unwrap(cfg.pll).target_freq) ELSE None
        /\ c.hse = IF IsSome(cfg.hse) THEN Some(Unwrap(cfg.hse).speed) ELSE None
        /\ c.lsi = cfg.lsi_on
        /\ c.lse = IsSome(cfg.lse)
        /\ c.hsi48 = cfg.hsi48_on

C10_Witness ==
    /\ IsSome(returned)
    /\ Unwrap(returned).sysclk = MHz(80) /\ Unwrap(returned).hclk = MHz(40)
    /\ Unwrap(returned).pclk1 = MHz(5) /\ Unwrap(returned).pclk2 = MHz(40)
    /\ Unwrap(returned).pll = Some(MHz(80))

\* C11: the MSI entry of the returned record reflects the hardware at the
\* end of freeze: with MSI configured at range R the record holds Some(R) and
\* MSI is on at R; with MSI not configured, so that clean_msi switched it
\* off, the record holds None.
C11_MsiRecord ==
    IsSome(returned) =>
        LET c == Unwrap(returned) IN
        IF IsSome(cfg.msi)
        THEN /\ c.msi = cfg.msi
             /\ rcc.cr.msion /\ rcc.cr.msirgsel
             /\ rcc.cr.msirange = Unwrap(cfg.msi)
        ELSE /\ c.msi = None
             /\ ~rcc.cr.msion

\* C12: the flash latency freeze writes for a core-bus frequency h is 0 up to
\* 16 MHz, 1 up to 32 MHz, 2 up to 48 MHz, 3 up to 64 MHz and 4 above; exactly
\* 16,000,000 Hz gives 0, 16,000,001 Hz gives 1, 80 MHz gives 4, and the
\* latency never decreases as h grows.
C12_FlashLatencyTable ==
    /\ Written("acr.latency") =>
           LET h == Unwrap(hclk) IN
           /\ acr.latency = CASE h <= 16000000 -> 0
                              [] h > 16000000 /\ h <= 32000000 -> 1
                              [] h > 32000000 /\ h <= 48000000 -> 2
                              [] h > 48000000 /\ h <= 64000000 -> 3
                              [] h > 64000000 -> 4
           /\ h = 16000000 => acr.latency = 0
           /\ h = 16000001 => acr.latency = 1
           /\ h = 80000000 => acr.latency = 4
    /\ \A a, b \in FlashFreqs \cup HclkFreqs :
           a <= b => flash_latency_bits(a) <= flash_latency_bits(b)

C12_Witness ==
    /\ Written("acr.latency")
    /\ hclk = Some(16000001) /\ acr.latency = 1

\* C13: for APB1 and APB2, once the prescaler is resolved the bus frequency
\* is the target, or the core-bus frequency without a target (divider 1), and
\* the timer frequency is the bus frequency when the divider is 1 and twice
\* the bus frequency when the divider is greater than 1; the returned record
\* holds these values.
C13_TimerClocks ==
    LET h == Unwrap(hclk)
        bus(target, pclk, timclk, ppre) ==
            /\ pclk = IF IsSome(target) THEN Unwrap(target) ELSE h
            /\ pclk # 0 /\ h % pclk = 0
            /\ IF h \div pclk = 1
               THEN timclk = pclk /\ ppre = 0
               ELSE timclk = pclk + pclk /\ ppre >= 4
    IN  /\ pc \in After("setup_pclk1") =>
               bus(cfg.pclk1, clocks.pclk1, clocks.timclk1, rcc.cfgr.ppre1)
        /\ pc \in After("setup_pclk2") =>
               bus(cfg.pclk2, clocks.pclk2, clocks.timclk2, rcc.cfgr.ppre2)
        /\ IsSome(returned) =>
               /\ bus(cfg.pclk1, Unwrap(returned).pclk1, Unwrap(returned).timclk1,
                      rcc.cfgr.ppre1)
               /\ bus(cfg.pclk2, Unwrap(returned).pclk2, Unwrap(returned).timclk2,
                      rcc.cfgr.ppre2)

C13_Witness ==
    /\ IsSome(returned)
    /\ cfg.pclk1 = Some(MHz(5)) /\ cfg.pclk2 = None
    /\ Unwrap(returned).hclk = MHz(40)
    /\ Unwrap(returned).pclk1 = MHz(5) /\ Unwrap(returned).timclk1 = MHz(10)
    /\ Unwrap(returned).pclk2 = MHz(40) /\ Unwrap(returned).timclk2 = MHz(40)

\* C14: baseline reset. Whatever the clock registers hold on entry, when
\* reset_clocks completes MSI is on, ready, running at 4 MHz and is the
\* system clock; and with MSI already on and already the system clock on
\* entry, neither step of reset_clocks writes a register.
C14_BaselineReset ==
    [][ /\ (pc # "setup_lsi" /\ pc' = "setup_lsi") =>
               /\ rcc'.cr.msion /\ rcc'.cr.msirdy
               /\ hw_msi_freq(rcc') = MHz(4)
               /\ rcc'.cfgr.sws = SysclkSource_bits("MSI")
        /\ (pc = "reset_clocks" /\ rcc.cr.msion) => log' = log
        /\ (pc = "reset_clocks_sws" /\ rcc.cfgr.sws = SysclkSource_bits("MSI"))
               => log' = log ]_vars

\* The builder field each setter names, and the value a call stores in it.
SetterField(op) ==
    CASE op = "enable_hse" -> "hse"
      [] op = "enable_lse" -> "lse"
      [] op = "set_hclk_freq" -> "hclk"
      [] op = "enable_hsi48" -> "hsi48_on"
      [] op = "enable_hsi16" -> "hsi16_on"
      [] op = "enable_msi" -> "msi"
      [] op = "set_lsi" -> "lsi_on"
      [] op = "set_pclk1_freq" -> "pclk1"
      [] op = "set_pclk2_freq" -> "pclk2"
      [] op = "set_sysclk" -> "sysclk"
      [] op = "enable_pll" -> "pll"

SetterStores(call) ==
    IF call.op \in {"enable_hsi48", "enable_hsi16", "set_lsi"} THEN call.arg
    ELSE Some(call.arg)

\* The value of field f after the calls cs from CFGR::default().
LastWrite(f, cs) ==
    LET ks == { k \in DOMAIN cs : SetterField(cs[k].op) = f } IN
    IF ks = {} THEN CFGR_default[f]
    ELSE SetterStores(cs[CHOOSE k \in ks : \A j \in ks : j <= k])

\* C15: a setter that returns leaves a builder in which the field it names
\* holds the new value and every other field is unchanged; after any sequence
\* of setter calls each field holds the value of the last call of its setter,
\* or its default when the setter was never called.
C15_SetterFrame ==
    [][ (calls' # calls /\ pc' = "builder") =>
            LET call == calls'[Len(calls')]
                f == SetterField(call.op)
            IN  /\ cfg'[f] = SetterStores(call)
                /\ \A g \in DOMAIN cfg \ {f} : cfg'[g] = cfg[g]
                /\ \A g \in DOMAIN cfg : cfg'[g] = LastWrite(g, calls') ]_vars

C15_Witness ==
    /\ pc = "builder" /\ Len(calls) = 3
    /\ calls[1].op = "enable_msi" /\ calls[1].arg = RANGE4M
    /\ calls[2].op = "set_lsi" /\ calls[2].arg = TRUE
    /\ calls[3].op = "enable_msi" /\ calls[3].arg = RANGE48M
    /\ cfg = [CFGR_default EXCEPT !.msi = Some(RANGE48M), !.lsi_on = TRUE]

\* C16: no validation at accumulation time: every setter call, enable_pll
\* with any input divider, multiplication factor and target included, returns
\* and stores its argument; no error is raised before freeze.
C16_NoValidationInBuilder ==
    (pc \in {"builder", "panicked"} /\ calls # <<>>) =>
        LET call == calls[Len(calls)] IN
        /\ pc = "builder" /\ err = None
        /\ cfg[SetterField(call.op)] = SetterStores(call)

\* C17: the PLL request 16 MHz (HSI16), in_div 1, out_mul 3, Div2, whose VCO
\* output would be 48 MHz, is rejected by the VCO-output range check of the
\* PLL validation in freeze, with the out-of-range VCO-output error: no other
\* check rejects it first.
C17_OutMul3RejectedByVco ==
    (/\ calls # <<>>
     /\ calls[Len(calls)].op = "enable_pll"
     /\ calls[Len(calls)].arg = [source |-> "HSI16", target_freq |-> MHz(24),
                                 in_div |-> 1, out_mul |-> 3, out_div |-> "Div2"])
    => /\ err \subseteq {E_PLL_VCO_OUT}
       /\ PllConfig_validate(calls[Len(calls)].arg, HSI16_FREQ) = Fail(E_PLL_VCO_OUT)

\* The register writes of a freeze of configuration c that runs to its end,
\* phase by phase in the order of the claim, after the writes of the baseline
\* reset (none, CFGR reset, MSI on at 4 MHz, or both).
ResetWrites ==
    { m \o r : m \in {<<>>, <<"cr.msirgsel", "cr.msirange", "cr.msipllen", "cr.msion">>},
               r \in {<<>>, <<"cfgr.reset">>} }

PhaseWrites(c) ==
    (IF c.lsi_on THEN <<"csr.lsion">> ELSE <<>>)
    \o (IF IsSome(c.lse)
        THEN <<"pwr.cr1.dbp", "bdcr.lseon">>
             \o (IF Unwrap(c.lse).bypass THEN <<"bdcr.lsebyp">> ELSE <<"bdcr.lsedrv">>)
             \o (IF Unwrap(c.lse).css THEN <<"bdcr.lsecsson", "cier.lsecssie">>
                 ELSE <<>>)
        ELSE <<>>)
    \o (IF IsSome(c.hse)
        THEN <<"cr.write", "cr.hseon">>
             \o (IF Unwrap(c.hse).bypass THEN <<"cr.hsebyp">> ELSE <<>>)
             \o (IF Unwrap(c.hse).css THEN <<"cr.csson">> ELSE <<>>)
        ELSE <<>>)
    \o (IF c.hsi48_on THEN <<"crrcr.hsi48on">> ELSE <<>>)
    \o (IF c.hsi16_on THEN <<"cr.write", "cr.hsion">> ELSE <<>>)
    \o (IF IsSome(c.pll)
        THEN <<"pllcfgr.pllsrc", "pllcfgr.pllm", "pllcfgr.pllr", "pllcfgr.plln",
               "cr.pllon", "pllcfgr.pllren">>
        ELSE <<>>)
    \o <<"cfgr.ppre1", "cfgr.ppre2">>
    \o <<"acr.latency">>
    \o (IF IsSome(c.msi)
        THEN <<"cr.msirange", "cr.msirgsel", "cr.msion">>
             \o (IF IsSome(c.lse) THEN <<"cr.msipllen">> ELSE <<>>)
        ELSE <<>>)
    \o <<"cfgr.sw">>
    \o <<"cfgr.hpre">>
    \o (IF c.msi = None THEN <<"cr.msion", "cr.msipllen">> ELSE <<>>)

IsPrefix(a, b) == Len(a) <= Len(b) /\ \A i \in 1..Len(a) : a[i] = b[i]

\* The condition the polling loop at position l waits for.
PollPassed(l) ==
    CASE l = "reset_clocks_msirdy" -> rcc.cr.msirdy
      [] l = "reset_clocks_swswait" -> rcc.cfgr.sws = 0
      [] l = "setup_lsi_rdy" -> rcc.csr.lsirdy
      [] l = "setup_lse_rdy" -> rcc.bdcr.lserdy
      [] l = "setup_hse_rdy" -> rcc.cr.hserdy
      [] l = "setup_hsi48_rdy" -> rcc.crrcr.hsi48rdy
      [] l = "setup_hsi16_rdy" -> rcc.cr.hsirdy
      [] l = "setup_pll_rdy" -> rcc.cr.pllrdy
      [] l = "configure_msi_rdy" -> rcc.cr.msirdy
      [] l = "setup_sysclk_sws" ->
            rcc.cfgr.sws = SysclkSource_bits(Unwrap(sysclk).source_clock)
      [] OTHER -> TRUE

\* C18: the hardware effects of freeze come in the fixed order baseline
\* reset, LSI, LSE, HSE, HSI48, HSI16, PLL, peripheral-bus dividers, flash
\* wait states, MSI range, system-clock switch, core-bus divider, MSI
\* cleanup: freeze only moves forward in that order and leaves a polling
\* loop only with its condition met, the writes made so far are always a
\* prefix of the writes of the phases in that order, and a freeze that
\* returns has made exactly these writes, those of every requested node once
\* and none of a node that was not requested.
C18_PhaseOrder ==
    [][ /\ \E r \in ResetWrites : IsPrefix(log', r \o PhaseWrites(cfg))
        /\ pc' = "done" => \E r \in ResetWrites : log' = r \o PhaseWrites(cfg)
        /\ pc' # pc => /\ PollPassed(pc)
                       /\ pc' = "panicked" \/ pc' \in After(pc) ]_vars

C18_Witness ==
    /\ pc = "done" /\ IsSome(returned)
    /\ cfg.lsi_on /\ IsSome(cfg.lse) /\ IsSome(cfg.msi)
    /\ log = PhaseWrites(cfg)
    /\ Len(log) = 15

\* The position in the log of a write that freeze makes once.
Pos(name) == CHOOSE k \in DOMAIN log : log[k] = name

C20_PllInputRealized ==
    pc = "setup_pll_rdy" =>
        LET p == Unwrap(cfg.pll)
            f == PllConfig_clock_freq(p, cfg).v
        IN  CASE p.source = "MSI" ->
                    /\ rcc.cr.msion /\ rcc.cr.msirdy
                    /\ rcc.cr.msirgsel /\ rcc.cr.msirange = Unwrap(cfg.msi)
                    /\ hw_msi_freq(rcc) = f
              [] p.source = "HSI16" ->
                    /\ rcc.cr.hsion /\ rcc.cr.hsirdy
                    /\ f = HSI16_FREQ
              [] p.source = "HSE" ->
                    /\ rcc.cr.hseon /\ rcc.cr.hserdy
                    /\ hw_hse_freq(cfg) = f

\* The enable bit and the ready flag of the oscillator with selector bits b.
OscOn(r, bits) ==
    CASE bits = 0 -> r.cr.msion
      [] bits = 1 -> r.cr.hsion
      [] bits = 2 -> r.cr.hseon
      [] bits = 3 -> r.cr.pllon

\* C21: every oscillator has completed its start-up before it is selected:
\* once freeze has written the system-clock selector, the source it selects
\* (MSI, HSI16, HSE or PLL) has its enable bit set and its ready flag set,
\* also when several oscillators are enabled at once.
C21_SourceReadyAtSwitch ==
    pc = "setup_sysclk_sws" =>
        /\ OscOn(rcc, rcc.cfgr.sw)
        /\ OscReady(rcc, rcc.cfgr.sw)

\* C22: each oscillator start-up step changes only the control bits of its
\* own oscillator in RCC_CR: the HSE start leaves the MSI, HSI16 and PLL bits
\* as they are, the HSI16 start leaves the HSE enable, bypass and clock
\* security bits and the MSI and PLL bits as they are, the HSI48 start leaves
\* RCC_CR as it is, and the MSI commit leaves the HSE, HSI16 and PLL bits as
\* they are.
C22_OscillatorFrame ==
    [][ LET msi(cr) == <<cr.msion, cr.msirange, cr.msirgsel, cr.msipllen>>
            hse(cr) == <<cr.hseon, cr.hsebyp, cr.csson>>
        IN  /\ pc \in {"setup_hse", "setup_hse_csson"} =>
                   /\ msi(rcc'.cr) = msi(rcc.cr)
                   /\ rcc'.cr.hsion = rcc.cr.hsion
                   /\ rcc'.cr.pllon = rcc.cr.pllon
            /\ pc = "setup_hsi16" =>
                   /\ hse(rcc'.cr) = hse(rcc.cr)
                   /\ msi(rcc'.cr) = msi(rcc.cr)
                   /\ rcc'.cr.pllon = rcc.cr.pllon
            /\ pc = "setup_hsi48" =>
                   /\ hse(rcc'.cr) = hse(rcc.cr)
                   /\ msi(rcc'.cr) = msi(rcc.cr)
                   /\ rcc'.cr.hsion = rcc.cr.hsion
                   /\ rcc'.cr.pllon = rcc.cr.pllon
            /\ pc = "configure_msi" =>
                   /\ hse(rcc'.cr) = hse(rcc.cr)
                   /\ rcc'.cr.hsion = rcc.cr.hsion
                   /\ rcc'.cr.pllon = rcc.cr.pllon ]_vars

\* C23: under well-behaved hardware every freeze eventually ends, by
\* returning the record or by a fatal abort: no polling loop spins forever.
C23_FreezeTerminates ==
    <>(pc \in {"done", "panicked"})

\* C24: cleanup of the bootstrap oscillator. When freeze returns, MSION is
\* set iff MSI was configured: not configured, MSION and MSIPLLEN are clear;
\* configured, the range in the register is the configured range and
\* MSIPLLEN is set iff an LSE was configured. And MSI is never off while it
\* is the selected system clock or the input of the enabled PLL.
\* (MsiFreq::freeze only ever sets MSIPLLEN: entered with MSIPLLEN set, a
\* freeze with MSI and no LSE returns with the bit still set.)
C24_MsiCleanup ==
    /\ IsSome(returned) =>
           IF IsSome(cfg.msi)
           THEN /\ rcc.cr.msion
                /\ rcc.cr.msirgsel /\ rcc.cr.msirange = Unwrap(cfg.msi)
                /\ rcc.cr.msipllen <=> IsSome(cfg.lse)
           ELSE /\ ~rcc.cr.msion
                /\ ~rcc.cr.msipllen
    /\ ~rcc.cr.msion =>
           /\ rcc.cfgr.sw # SysclkSource_bits("MSI")
           /\ rcc.cfgr.sws # SysclkSource_bits("MSI")
           /\ ~(rcc.cr.pllon /\ rcc.pllcfgr.pllsrc = PllSource_source_bits("MSI"))

\* C25: in every record freeze returns, the system-clock frequency and the
\* core-bus frequency are at most MAX_CLOCK_SPEED (80 MHz), whichever source
\* is the system clock and whatever speed the HSE was configured with.
C25_RecordWithinMaxSpeed ==
    IsSome(returned) =>
        /\ Unwrap(returned).sysclk <= MAX_CLOCK_SPEED
        /\ Unwrap(returned).hclk <= MAX_CLOCK_SPEED

\* C26: the system-clock resolution precedes the PLL start: a freeze that
\* aborts because there is neither a system-clock selection nor an MSI
\* configuration has not written RCC_PLLCFGR and has not enabled the PLL.
C26_ResolutionBeforePll ==
    (pc = "panicked" /\ err = Some(E_NO_SYSCLK)) =>
        /\ ~Written("pllcfgr.pllsrc") /\ ~Written("pllcfgr.plln")
        /\ ~Written("cr.pllon") /\ ~Written("pllcfgr.pllren")
        /\ ~rcc.cr.pllon

\* C28: in every record freeze returns, ppre1 and ppre2 are the division
\* factors of the APB1 and APB2 prescalers that freeze resolved and wrote:
\* hclk / pclk1 and hclk / pclk2.
C28_RecordPrescalers ==
    IsSome(returned) =>
        LET c == Unwrap(returned)
            factor(bits) ==
                Prescaler_div_factor(CHOOSE d \in Prescalers : Prescaler_bits(d) = bits)
        IN  /\ c.ppre1 = c.hclk \div c.pclk1
            /\ c.ppre1 = factor(rcc.cfgr.ppre1)
            /\ c.ppre2 = c.hclk \div c.pclk2
            /\ c.ppre2 = factor(rcc.cfgr.ppre2)

\* C27: the u32 arithmetic of the PLL commit never overflows and never
\* divides by zero, for every configuration PllConfig::new accepts and every
\* clock frequency: in_div is in 1..8, the product source_freq * out_mul is
\* evaluated only with source_freq <= 16 MHz, so it is at most 1,376,000,000,
\* and the output factor is one of 2, 4, 6, 8. The outcome agrees with the
\* PLL validation of freeze.
C27_PllArithmeticFits ==
    IsSome(pllarith.outcome) =>
        LET p == Unwrap(pllarith.pll)
            f == pllarith.clock_freq
            o == Unwrap(pllarith.outcome)
        IN  /\ o.status \in {"Ok", "Assert"}
            /\ p.in_div \in 1..8
            /\ PllOutputDivider_div_factor(p.out_div) \in {2, 4, 6, 8}
            /\ IsSome(o.mul) =>
                   /\ f \div p.in_div <= 16000000
                   /\ Unwrap(o.mul) <= 1376000000
                   /\ Unwrap(o.mul) \div p.out_mul = f \div p.in_div
            /\ (o.status = "Ok") <=> PllConfig_validate(p, f).ok

C27_Witness ==
    /\ IsSome(pllarith.outcome)
    /\ pllarith.clock_freq = 128000007
    /\ Unwrap(pllarith.pll).in_div = 8 /\ Unwrap(pllarith.pll).out_mul = 86
    /\ Unwrap(pllarith.outcome).mul = Some(1376000000)

====
